---- MODULE Spec2Model ----
(***************************************************************************)
(* A model of the conversation agent of src/core/agent.py: the retrieval   *)
(* cache (async_cache), the request coalescer                              *)
(* (_get_relevant_memories_with_dedup), the circuit breaker, the model     *)
(* client's retry loop (_call_llm_with_retry) and the chat turn.           *)
(*                                                                         *)
(* The agent runs on one asyncio event loop: a coroutine runs without      *)
(* interruption from one await to the next, so every action below is the   *)
(* code between two suspension points.  Each component has its own         *)
(* specification (SpecRetr, SpecCB, SpecLLM, SpecChat); the components     *)
(* share no state in the source apart from the clock.  The chat turn is    *)
(* also run in particular settings: SpecHistory (one session, call after   *)
(* call), SpecSession (several users and session ids), SpecRecall (a store *)
(* that returns what was saved), SpecRoute (the streaming route's          *)
(* generate()) and SpecGuard (a circuit breaker next to the chat turns).   *)
(***************************************************************************)
EXTENDS Integers, Sequences, FiniteSets, TLC

VARIABLES
    now,            \* time.time(), in seconds
    ticks,          \* how many times the clock has advanced
    \* ---- the route /chat/message
    request,        \* the ChatRequest being handled (NoRequest: none)
    \* ---- rate_limit_middleware
    request_counts, \* the dict of main.py: key -> number of requests seen
    minute_now,     \* current_time = int(time.time() / 60): the minute
    nrequests,      \* how many requests the middleware has handled
    rlanswer,       \* its last answer: the client, the minute, 429 or forwarded
    forwarded,      \* per client and minute: how many requests went to call_next
    \* ---- clear_user_memories
    clpc,           \* idle, or deleting (memory.delete_all is in the executor)
    cluser,         \* its user_id
    clresult,       \* what the last call returned: None, "True" or "False"
    nclears,        \* how many calls have been made
    \* ---- MemoryService
    mcalls,         \* the calls made on self.memory, in order
    mrecords,       \* the records the store holds
    svargs,         \* history: the operation last called and its arguments
    svlast,         \* the dictionary the operation last called returned
    \* ---- get_session and close
    hsession,       \* self._session: 0 is None, else the session's number
    hopen,          \* the sessions made so far that are not closed
    hcreated,       \* how many sessions have been made
    hconnclosed,    \* self._connector has been closed
    hpc,            \* each client's position: idle, or using (inside the with)
    hgot,           \* the session get_session gave the client
    \* ---- _build_context_messages_optimized, per caller
    recent_history, \* the window of the session's history it took at entry
    bseen,          \* history: the session's history as it was at entry
    bmsgs,          \* the messages it returned
    \* ---- retrieval cache and coalescer
    cache,          \* async_cache's dict: cache key -> (result, timestamp)
    pending,        \* self._pending_requests: request key -> task
    rpc,            \* each caller's position
    rargs,          \* each caller's call: entry point and arguments
    joined,         \* the task a coalescer caller awaits (its owner's id)
    rresult,        \* what the caller was returned
    wst,            \* each execution of the cached wrapper: its position
    wtime,          \* the wrapper's current_time
    wres,           \* the wrapper's result
    wsearched,      \* whether the wrapper execution issued a memory.search
    wrepeat,        \* history: that search came after a completed search of the
                    \* same (owner, query, limit) inserted less than a TTL before
    \* ---- circuit breaker
    cbState,            \* self.state
    failure_count,      \* self.failure_count
    last_failure_time,  \* self.last_failure_time (-1: None)
    cpc,            \* each caller of CircuitBreaker.call: idle or in the wrapped call
    cout,           \* how the caller's last call ended
    centry,         \* history: self.state as the caller's last call found it
    ctrial,         \* history: the call moved the breaker from OPEN to HALF_OPEN
    cat,            \* history: when the caller's last call was made
    \* ---- _call_llm_with_retry
    lpc,            \* idle, running (in the for loop) or done (returned)
    max_retries,    \* the max_retries argument
    attempt,        \* the loop variable
    requests,       \* history: session.post calls made
    outcomes,       \* history: how each attempt's request ended
    sleeps,         \* history: the asyncio.sleep after each attempt (0: none)
    lresult,        \* the string returned
    \* ---- chat
    conversation_history,   \* self.conversation_history: session key -> turns
    uuids,          \* how many uuid4 values have been drawn
    nchats,         \* how many chat calls have been made
    chpc,           \* each chat call's position
    chargs,         \* its arguments
    chsid,          \* its session_id, given or generated
    chmem,          \* its memories_text
    chrecalled,     \* history: the stored records its search returned
    chprompt,       \* the messages it passed to the model
    chresult,       \* the dictionary it returned
    chraised,       \* history: the step of the turn that raised ("none": none)
    chmodel,        \* history: the model was called for the turn
    stream,         \* the returned response_generator: none, open, exhausted
                    \* or failed (the model's stream raised)
    streamrest,     \* the chunks the model's stream has yet to give
    response_chunks,\* the chunks collect_stream has gathered
    savepc,         \* the turn's background save: none, scheduled, adding, ...
    savemsg,        \* the conversation_messages handed to the save
    savemeta,       \* the metadata the save passed to memory.add
    nadds,          \* history: the times the save has called memory.add
    stored,         \* what memory.add has stored
    \* ---- the route's generate()
    genpc,          \* none, content (metadata sent), done or failed
    emitted         \* the fragments generate() has yielded

rvars == <<cache, pending, rpc, rargs, joined, rresult, wst, wtime, wres,
           wsearched, wrepeat>>
cbvars == <<cbState, failure_count, last_failure_time, cpc, cout, centry, ctrial, cat>>
lvars == <<lpc, max_retries, attempt, requests, outcomes, sleeps, lresult>>
chvars == <<conversation_history, uuids, nchats, chpc, chargs, chsid, chmem,
            chrecalled, chprompt, chresult,
            chraised, chmodel, stream, streamrest, response_chunks, savepc,
            savemsg, savemeta, nadds, stored, genpc, emitted>>
bvars == <<recent_history, bseen, bmsgs>>
hvars == <<hsession, hopen, hcreated, hconnclosed, hpc, hgot>>
svvars == <<mcalls, mrecords, svargs, svlast>>
clvars == <<clpc, cluser, clresult, nclears>>
clock == <<now, ticks>>

\* what the actions of one component leave alone
rlvars == <<request_counts, minute_now, nrequests, rlanswer, forwarded>>
notRetr == <<cbvars, lvars, chvars, hvars, svvars, clvars, request, rlvars>>
notCB == <<rvars, bvars, lvars, chvars, hvars, svvars, clvars, request, rlvars>>
notLLM == <<rvars, bvars, cbvars, chvars, hvars, svvars, clvars, request, rlvars>>
notChat == <<rvars, bvars, cbvars, lvars, hvars, svvars, clvars, request, rlvars>>
notHttp == <<rvars, bvars, cbvars, lvars, chvars, svvars, clvars, request, rlvars>>
notService == <<rvars, bvars, cbvars, lvars, chvars, hvars, clvars, request, rlvars>>
notRate == <<now, ticks, rvars, bvars, cbvars, lvars, chvars, hvars, svvars, clvars, request>>
\* clear_user_memories writes conversation_history and nothing else of chat
notClear == <<rvars, bvars, cbvars, lvars, hvars, svvars, request, rlvars,
              uuids, nchats, chpc, chargs, chsid, chmem, chrecalled, chprompt, chresult,
              chraised, chmodel, stream, streamrest, response_chunks, savepc,
              savemsg, savemeta, nadds, stored, genpc, emitted>>

-----------------------------------------------------------------------------
(* Bounds of the model *)

\* RATE_LIMIT is read from the environment (default 100); the model takes a
\* small one
RATE_LIMIT == 2
MaxRequests == 5
MaxMinute == 7
MaxBatch == 2
CLEANUP_AGE == 5
NCallers == 2
MaxTicks == 1
NCBCallers == 2
MaxRetries == 3
NTurns == 2
MaxChats == 6

(* Program constants *)

CACHE_TTL == 600
DEFAULT_LIMIT == 5
failure_threshold == 5
timeout == 60
DEFAULT_MAX_RETRIES == 3
HISTORY_WINDOW == 10
MaxExchanges == 6
NClients == 3
MaxSessions == 3
MaxStoreCalls == 2
MaxClears == 2

Callers == 1..NCallers
Users == {"u1"}
Queries == {"q1"}
Limits == {3, DEFAULT_LIMIT}

None == "None"

\* The clock advances by one of the given amounts, chosen so that the ages
\* the code compares (ttl - 1 and ttl, timeout and timeout + 1) all occur.
Tick(steps) ==
    /\ ticks < MaxTicks
    /\ \E d \in steps : now' = now + d
    /\ ticks' = ticks + 1

-----------------------------------------------------------------------------
(* The memory store's search, as the retrieval paths see it *)

\* What memory.search may hand back: a list of records, some of them with an
\* empty text, or an exception.
StoreResults == { <<[memory |-> ""], [memory |-> "m1"]>> }
SearchOutcomes ==
    { [raised |-> FALSE, results |-> r] : r \in StoreResults }
        \cup { [raised |-> TRUE, results |-> <<>>] }

RECURSIVE ExtractMemories(_)
ExtractMemories(results) ==
    IF results = <<>> THEN <<>>
    ELSE LET text == Head(results).memory
         IN  IF text # "" THEN <<text>> \o ExtractMemories(Tail(results))
             ELSE ExtractMemories(Tail(results))

\* _get_relevant_memories_raw: the texts of the records found, [] on any error
RawResult(outcome) ==
    IF outcome.raised THEN <<>> ELSE ExtractMemories(outcome.results)

-----------------------------------------------------------------------------
(* async_cache *)

\* The positional arguments of a call (self left out): the context builder
\* passes (user_id, user_message), the coalescer (user_id, query, limit).
ArgTuples ==
    { <<u, q>> : u \in Users, q \in Queries }
        \cup { <<u, q, l>> : u \in Users, q \in Queries, l \in Limits }

\* cache_key = f"{func.__name__}:{hash(str(args) + str(kwargs))}": equal exactly
\* when the argument tuples are written the same (hash taken as collision free)
CacheKey(args) == <<"_get_relevant_memories_cached", args>>
CacheKeys == { CacheKey(a) : a \in ArgTuples }

\* a key the dict does not hold
NoEntry == [result |-> <<>>, timestamp |-> -1]
Present(entry) == entry.timestamp >= 0

\* an eligibility test that still accepts an entry exactly one TTL old
CacheFreshAtTTL(entry, current_time) ==
    /\ Present(entry)
    /\ current_time - entry.timestamp <= CACHE_TTL

CacheFresh(entry, current_time) ==
    /\ Present(entry)
    /\ current_time - entry.timestamp < CACHE_TTL

\* the sweep at the end of a miss: every entry expired at current_time goes
SweepExpired(c, current_time) ==
    [k \in CacheKeys |->
        IF Present(c[k]) /\ current_time - c[k].timestamp >= CACHE_TTL
        THEN NoEntry ELSE c[k]]

CacheStore(c, key, result, current_time) ==
    SweepExpired([c EXCEPT ![key] = [result |-> result, timestamp |-> current_time]],
                 current_time)

\* The arguments the wrapped function finally runs with
EffUser(args) == args[1]
EffQuery(args) == args[2]
EffLimit(args) == IF Len(args) >= 3 THEN args[3] ELSE DEFAULT_LIMIT

-----------------------------------------------------------------------------
(* The messages _build_context_messages_optimized puts together *)

\* session_key = f"{user_id}_{session_id}"
SessionKey(user_id, session_id) == user_id \o "_" \o session_id

\* seq[:n]
FirstN(seq, n) == SubSeq(seq, 1, IF Len(seq) > n THEN n ELSE Len(seq))

\* seq[-n:]
LastN(seq, n) ==
    SubSeq(seq, IF Len(seq) > n THEN Len(seq) - n + 1 ELSE 1, Len(seq))

BasePrompt == "You are an assistant that remembers the user's preferences and past talks."
BuilderHeader == "\n\nThe following are memories of the user:\n"
BuilderFooter ==
    "\n\nReply on the basis of these memories, and mind the user's preferences and interests."

\* "\n".join([f"- {memory}" for memory in memories]), memories not empty
RECURSIVE JoinBullets(_)
JoinBullets(memories) ==
    IF Len(memories) = 1 THEN "- " \o memories[1]
    ELSE "- " \o Head(memories) \o "\n" \o JoinBullets(Tail(memories))

\* a system instruction that always carries the memory section
BuilderSystemPromptAlways(memories) ==
    BasePrompt \o BuilderHeader
        \o (IF memories = <<>> THEN "" ELSE JoinBullets(memories)) \o BuilderFooter

BuilderSystemPrompt(memories) ==
    IF memories # <<>>
    THEN BasePrompt \o BuilderHeader \o JoinBullets(memories) \o BuilderFooter
    ELSE BasePrompt

\* messages = [system]; messages.extend(recent_history); messages.append(user)
BuilderMessages(memories, recent, user_message) ==
    <<[role |-> "system", content |-> BuilderSystemPrompt(memories)]>>
        \o recent
        \o <<[role |-> "user", content |-> user_message]>>

-----------------------------------------------------------------------------
(* Retrieval: callers, wrapper executions, the coalescer *)

\* hash(query) in the request key, taken as collision free on Queries
Hash(q) == CASE q = "q1" -> 101 [] OTHER -> 0

RequestKey(user_id, query, limit) == <<user_id, Hash(query), limit>>
RequestKeys == { RequestKey(u, q, l) : u \in Users, q \in Queries, l \in Limits }

NoArgs == [entry |-> None, args |-> <<>>]

BuilderInit ==
    /\ recent_history = [p \in Callers |-> <<>>]
    /\ bseen = [p \in Callers |-> <<>>]
    /\ bmsgs = [p \in Callers |-> <<>>]

RetrInit ==
    /\ cache = [k \in CacheKeys |-> NoEntry]
    /\ pending = [k \in RequestKeys |-> 0]
    /\ rpc = [p \in Callers |-> "idle"]
    /\ rargs = [p \in Callers |-> NoArgs]
    /\ joined = [p \in Callers |-> 0]
    /\ rresult = [p \in Callers |-> <<>>]
    /\ wst = [p \in Callers |-> "none"]
    /\ wtime = [p \in Callers |-> -1]
    /\ wres = [p \in Callers |-> <<>>]
    /\ wsearched = [p \in Callers |-> FALSE]
    /\ wrepeat = [p \in Callers |-> FALSE]

\* Callers are interchangeable: they arrive in the order of their ids.
MayArrive(p) == rpc[p] = "idle" /\ (IF p = 1 THEN TRUE ELSE rpc[p - 1] # "idle")

SameRetrieval(a, b) ==
    EffUser(a) = EffUser(b) /\ EffQuery(a) = EffQuery(b) /\ EffLimit(a) = EffLimit(b)

\* some earlier retrieval of the same (owner, query, limit) has searched the
\* store and inserted its result less than a TTL ago
InsertedWithinTTL(args) ==
    \E q \in Callers :
        /\ wst[q] = "finished" /\ wsearched[q]
        /\ SameRetrieval(rargs[q].args, args)
        /\ now - wtime[q] < CACHE_TTL

\* The wrapper's first stretch, up to the await of the executor: a fresh entry
\* is returned at once, otherwise the search is handed to the executor.
WrapperBegin(p, args) ==
    LET key == CacheKey(args) IN
    IF CacheFresh(cache[key], now)
    THEN /\ wst' = [wst EXCEPT ![p] = "finished"]
         /\ wres' = [wres EXCEPT ![p] = cache[key].result]
         /\ wtime' = [wtime EXCEPT ![p] = now]
         /\ UNCHANGED <<wsearched, wrepeat>>
    ELSE /\ wst' = [wst EXCEPT ![p] = "searching"]
         /\ wtime' = [wtime EXCEPT ![p] = now]
         /\ wsearched' = [wsearched EXCEPT ![p] = TRUE]
         /\ wrepeat' = [wrepeat EXCEPT ![p] = InsertedWithinTTL(args)]
         /\ UNCHANGED wres

\* _build_context_messages_optimized up to its await: the window of the
\* session's history is taken, then the cached lookup with the default limit
\* runs; with a fresh entry the builder goes on to return without suspending
BuilderLookup(p, u, q, sid) ==
    LET history == conversation_history[SessionKey(u, sid)].turns
        recent == LastN(history, HISTORY_WINDOW)
    IN  /\ MayArrive(p)
        /\ rargs' = [rargs EXCEPT ![p] = [entry |-> "builder", args |-> <<u, q>>]]
        /\ bseen' = [bseen EXCEPT ![p] = history]
        /\ recent_history' = [recent_history EXCEPT ![p] = recent]
        /\ WrapperBegin(p, <<u, q>>)
        /\ rpc' = [rpc EXCEPT ![p] = IF wst'[p] = "finished" THEN "done" ELSE "in_wrapper"]
        /\ rresult' = [rresult EXCEPT ![p] = IF wst'[p] = "finished" THEN wres'[p] ELSE <<>>]
        /\ bmsgs' = [bmsgs EXCEPT ![p] =
                IF wst'[p] = "finished" THEN BuilderMessages(wres'[p], recent, q) ELSE <<>>]
        /\ UNCHANGED <<cache, pending, joined, clock, notRetr>>

\* a coalescer that never finds the key registered
PendingHasNever(key) == FALSE

\* request_key in self._pending_requests
PendingHas(key) == pending[key] # 0

\* _get_relevant_memories_with_dedup up to its await: join the pending task
\* of the key, or create one and register it
DedupCall(p, u, q, l) ==
    LET key == RequestKey(u, q, l) IN
    /\ MayArrive(p)
    /\ rargs' = [rargs EXCEPT ![p] = [entry |-> "dedup", args |-> <<u, q, l>>]]
    /\ rpc' = [rpc EXCEPT ![p] = "await_task"]
    /\ IF PendingHas(key)
       THEN /\ joined' = [joined EXCEPT ![p] = pending[key]]
            /\ UNCHANGED <<pending, wst>>
       ELSE /\ joined' = [joined EXCEPT ![p] = p]
            /\ pending' = [pending EXCEPT ![key] = p]
            /\ wst' = [wst EXCEPT ![p] = "created"]
    /\ UNCHANGED <<cache, rresult, wtime, wres, wsearched, wrepeat, clock, notRetr, bvars>>

\* the task created by the coalescer starts running the cached wrapper
TaskStart(p) ==
    /\ wst[p] = "created"
    /\ WrapperBegin(p, rargs[p].args)
    /\ UNCHANGED <<cache, pending, rpc, rargs, joined, rresult, clock, notRetr, bvars>>

\* memory.search returns or raises; the wrapper caches what the raw lookup
\* made of it, sweeps the expired entries and returns
SearchReturn(p, outcome) ==
    LET result == RawResult(outcome) IN
    /\ wst[p] = "searching"
    /\ wst' = [wst EXCEPT ![p] = "finished"]
    /\ wres' = [wres EXCEPT ![p] = result]
    /\ cache' = CacheStore(cache, CacheKey(rargs[p].args), result, wtime[p])
    /\ IF rargs[p].entry = "builder"
       THEN /\ rpc' = [rpc EXCEPT ![p] = "done"]
            /\ rresult' = [rresult EXCEPT ![p] = result]
            /\ bmsgs' = [bmsgs EXCEPT ![p] =
                    BuilderMessages(result, recent_history[p], rargs[p].args[2])]
       ELSE UNCHANGED <<rpc, rresult, bmsgs>>
    /\ UNCHANGED <<pending, rargs, joined, wtime, wsearched, wrepeat, clock, notRetr,
                   recent_history, bseen>>

\* a coalescer in which every caller that awaited the task removes the key
PopsKeyAlways(p) == TRUE

\* only the caller that created the task goes through the try/finally
PopsKey(p) == joined[p] = p

\* a cleanup written after the await instead of in a finally
FinallyRunsOnSuccess(outcome) == outcome = "finished"

\* finally: the cleanup runs however the awaited task has ended
FinallyRuns(outcome) == TRUE

\* a coalescer caller resumes once the task it awaits is done, with the
\* task's result or with its exception; the caller that registered the task
\* pops the key in its finally
DedupResume(p) ==
    /\ rpc[p] = "await_task"
    /\ wst[joined[p]] \in {"finished", "failed"}
    /\ IF wst[joined[p]] = "finished"
       THEN /\ rresult' = [rresult EXCEPT ![p] = wres[joined[p]]]
            /\ rpc' = [rpc EXCEPT ![p] = "done"]
       ELSE /\ rpc' = [rpc EXCEPT ![p] = "raised"]
            /\ UNCHANGED rresult
    /\ IF PopsKey(p) /\ FinallyRuns(wst[joined[p]])
       THEN pending' = [pending EXCEPT
                ![RequestKey(rargs[p].args[1], rargs[p].args[2], rargs[p].args[3])] = 0]
       ELSE UNCHANGED pending
    /\ UNCHANGED <<cache, rargs, joined, wst, wtime, wres, wsearched, wrepeat, clock, notRetr, bvars>>

RetrTickSteps == {CACHE_TTL - 1, CACHE_TTL}

RetrTick == Tick(RetrTickSteps) /\ UNCHANGED <<rvars, bvars, notRetr>>

\* The wrapper's run ends with an exception that `except Exception` of the
\* raw lookup does not catch (asyncio.CancelledError and the other
\* BaseExceptions): nothing is cached, and the exception goes to whoever
\* awaits the wrapper
TaskRaise(p) ==
    /\ wst[p] = "searching"
    /\ wst' = [wst EXCEPT ![p] = "failed"]
    /\ rpc' = [rpc EXCEPT ![p] = IF rargs[p].entry = "builder" THEN "raised" ELSE @]
    /\ UNCHANGED <<cache, pending, rargs, joined, rresult, wtime, wres, wsearched,
                   wrepeat, clock, notRetr, bvars>>

NextRetr ==
    \/ \E p \in Callers, u \in Users, q \in Queries : BuilderLookup(p, u, q, "s1")
    \/ \E p \in Callers, u \in Users, q \in Queries, l \in Limits : DedupCall(p, u, q, l)
    \/ \E p \in Callers : TaskStart(p)
    \/ \E p \in Callers, o \in SearchOutcomes : SearchReturn(p, o)
    \/ \E p \in Callers : DedupResume(p)
    \/ RetrTick

\* the retrieval paths with wrapper runs that may end with an exception
NextRetrFail ==
    \/ NextRetr
    \/ \E p \in Callers : TaskRaise(p)

-----------------------------------------------------------------------------
(* CircuitBreaker *)

CBCallers == 1..NCBCallers

NoCall == "none"

CBInit ==
    /\ cbState = "CLOSED"
    /\ failure_count = 0
    /\ last_failure_time = -1
    /\ cpc = [p \in CBCallers |-> "idle"]
    /\ cout = [p \in CBCallers |-> NoCall]
    /\ centry = [p \in CBCallers |-> NoCall]
    /\ ctrial = [p \in CBCallers |-> FALSE]
    /\ cat = [p \in CBCallers |-> -1]

\* a breaker that lets the trial through as soon as `timeout` is reached
TimeoutElapsedAtTimeout(current_time) == current_time - last_failure_time >= timeout

\* time.time() - self.last_failure_time > self.timeout
TimeoutElapsed(current_time) == current_time - last_failure_time > timeout

\* CircuitBreaker.call up to the await of func: an OPEN breaker rejects the
\* call, or turns HALF_OPEN once the timeout has elapsed; in every other
\* state func is called
CBCall(p) ==
    /\ cpc[p] = "idle"
    /\ centry' = [centry EXCEPT ![p] = cbState]
    /\ cat' = [cat EXCEPT ![p] = now]
    /\ IF cbState = "OPEN" /\ ~TimeoutElapsed(now)
       THEN \* raise Exception("Circuit breaker is OPEN")
            /\ cout' = [cout EXCEPT ![p] = "rejected"]
            /\ ctrial' = [ctrial EXCEPT ![p] = FALSE]
            /\ UNCHANGED <<cbState, cpc>>
       ELSE /\ cbState' = IF cbState = "OPEN" THEN "HALF_OPEN" ELSE cbState
            /\ ctrial' = [ctrial EXCEPT ![p] = (cbState = "OPEN")]
            /\ cpc' = [cpc EXCEPT ![p] = "inflight"]
            /\ cout' = [cout EXCEPT ![p] = NoCall]
    /\ UNCHANGED <<failure_count, last_failure_time, clock, notCB>>

\* a breaker in which every success forgets the failures
CountAfterSuccessReset(state, count) == 0

\* a breaker that closes after the trial but keeps its count
CountAfterSuccessKept(state, count) == count

\* self.failure_count once func has returned
CountAfterSuccess(state, count) == IF state = "HALF_OPEN" THEN 0 ELSE count

\* a breaker that any success closes
StateAfterSuccessCloses(state) == "CLOSED"

\* if self.state == 'HALF_OPEN': self.state = 'CLOSED'
StateAfterSuccess(state) == IF state = "HALF_OPEN" THEN "CLOSED" ELSE state

\* func returned: a HALF_OPEN breaker closes and forgets its failures
CBFuncReturn(p) ==
    /\ cpc[p] = "inflight"
    /\ cpc' = [cpc EXCEPT ![p] = "idle"]
    /\ cout' = [cout EXCEPT ![p] = "ok"]
    /\ cbState' = StateAfterSuccess(cbState)
    /\ failure_count' = CountAfterSuccess(cbState, failure_count)
    /\ UNCHANGED <<last_failure_time, centry, ctrial, cat, clock, notCB>>

\* a breaker that only a CLOSED state can leave for OPEN
StateAfterFailureFromClosed(state, count) ==
    IF state = "CLOSED" /\ count >= failure_threshold THEN "OPEN" ELSE state

\* if self.failure_count >= self.failure_threshold: self.state = 'OPEN'
StateAfterFailure(state, count) ==
    IF count >= failure_threshold THEN "OPEN" ELSE state

\* func raised: the failure is counted and stamped, the breaker opens at the
\* threshold, and the exception goes on to the caller
CBFuncRaise(p) ==
    /\ cpc[p] = "inflight"
    /\ cpc' = [cpc EXCEPT ![p] = "idle"]
    /\ cout' = [cout EXCEPT ![p] = "raised"]
    /\ failure_count' = failure_count + 1
    /\ last_failure_time' = now
    /\ cbState' = StateAfterFailure(cbState, failure_count')
    /\ UNCHANGED <<centry, ctrial, cat, clock, notCB>>

CBTickSteps == {timeout, timeout + 1}

CBTick == Tick(CBTickSteps) /\ UNCHANGED <<cbvars, notCB>>

NextCB ==
    \/ \E p \in CBCallers : CBCall(p)
    \/ \E p \in CBCallers : CBFuncReturn(p)
    \/ \E p \in CBCallers : CBFuncRaise(p)
    \/ CBTick

-----------------------------------------------------------------------------
(* _call_llm_with_retry *)

\* the content of a 200 response's first choice: the model's text, which
\* nothing keeps from being empty
Contents == {"", "reply"}

\* How one attempt's request may end:
\*   200      status 200 with a well-formed body
\*   bad200   status 200 whose body lacks choices[0].message.content
\*   429      rate limited
\*   other_ok another status below 400, which raise_for_status lets pass
\*   timeout  asyncio.TimeoutError
\*   error    a transport error, or a status of 400 and above
AttemptOutcomes ==
    { [kind |-> "200", content |-> c] : c \in Contents }
        \cup { [kind |-> k, content |-> ""] :
                   k \in {"bad200", "429", "other_ok", "timeout", "error"} }

FallbackTimeout == "Sorry, the service is temporarily unavailable, please retry later."
FallbackError == "Sorry, I cannot reply right now. Error: "
FallbackExhausted == "Sorry, the service is temporarily unavailable."

\* str(e) of the exception caught
ErrorDetail(kind) == IF kind = "bad200" THEN "KeyError" ELSE "ClientError"

RECURSIVE Pow2(_)
Pow2(n) == IF n <= 0 THEN 1 ELSE 2 * Pow2(n - 1)

\* a backoff that grows by one second per attempt
BackoffLinear(a) == a + 1

\* wait_time = 2 ** attempt
Backoff(a) == Pow2(a)

\* a retry loop that lets the last-attempt error escape as an empty reply
FallbackTextsEmpty(kind) == ""

\* the text returned when the last attempt ends in an exception
FallbackTexts(kind) ==
    IF kind = "timeout" THEN FallbackTimeout ELSE FallbackError \o ErrorDetail(kind)

LLMInit ==
    /\ lpc = "idle"
    /\ max_retries = 0
    /\ attempt = 0
    /\ requests = 0
    /\ outcomes = <<>>
    /\ sleeps = <<>>
    /\ lresult = ""

LLMCall(m) ==
    /\ lpc = "idle"
    /\ lpc' = "running"
    /\ max_retries' = m
    /\ attempt' = 0
    /\ UNCHANGED <<requests, outcomes, sleeps, lresult, clock, notLLM>>

LLMReturn(text) == lpc' = "done" /\ lresult' = text /\ UNCHANGED attempt

LLMContinue == lpc' = "running" /\ attempt' = attempt + 1 /\ UNCHANGED lresult

\* one pass of the for loop: the request, the handling of its outcome and the
\* sleep that follows it
LLMAttempt(o) ==
    /\ lpc = "running"
    /\ attempt < max_retries
    /\ requests' = requests + 1
    /\ outcomes' = Append(outcomes, o)
    /\ CASE o.kind = "200" ->
               LLMReturn(o.content) /\ sleeps' = Append(sleeps, 0)
         [] o.kind = "429" ->
               LLMContinue /\ sleeps' = Append(sleeps, Backoff(attempt))
         [] o.kind = "other_ok" ->
               LLMContinue /\ sleeps' = Append(sleeps, 0)
         [] OTHER ->
               IF attempt = max_retries - 1
               THEN LLMReturn(FallbackTexts(o.kind)) /\ sleeps' = Append(sleeps, 0)
               ELSE LLMContinue /\ sleeps' = Append(sleeps, 1)
    /\ UNCHANGED <<max_retries, clock, notLLM>>

\* the loop ran out of attempts without returning
LLMExhausted ==
    /\ lpc = "running"
    /\ attempt >= max_retries
    /\ LLMReturn(FallbackExhausted)
    /\ UNCHANGED <<max_retries, requests, outcomes, sleeps, clock, notLLM>>

NextLLM ==
    \/ \E m \in 0..MaxRetries : LLMCall(m)
    \/ \E o \in AttemptOutcomes : LLMAttempt(o)
    \/ LLMExhausted

-----------------------------------------------------------------------------
(* chat *)

Turns == 1..NTurns

Messages == {"hi"}

\* the session_id argument: None or a caller's own id
GivenSids == {None, "s1"}

\* the callers of the session claims: user ids and session ids are free
\* text, an underscore included; a session id may be None or empty
SessionUsers == Users \cup {"u1_s1"}
SessionSids == GivenSids \cup {"", "s1_s1"}

\* a generator that gives the same value again
UuidFixed(n) == "uuid-1"

\* str(uuid.uuid4()): a value never drawn before
Uuid(n) == "uuid-" \o ToString(n)

SessionIds == (SessionSids \ {None, ""}) \cup { Uuid(n) : n \in 1..MaxChats }

SessionKeys == { SessionKey(u, sid) : u \in SessionUsers, sid \in SessionIds }

\* the metadata argument: None, or a dictionary with the stream flag set
Metas == { [isNone |-> TRUE, stream |-> FALSE],
           [isNone |-> FALSE, stream |-> TRUE] }

\* metadata = None: no stream is asked for
PlainMeta == [isNone |-> TRUE, stream |-> FALSE]

\* a dictionary: a function from its keys to their values
EmptyDict == [k \in {} |-> ""]

\* metadata or {}: the keys a caller's dictionary brings (the stream flag,
\* which a turn that is saved never has set, left aside)
MetaDict(metadata) == IF "dict" \in DOMAIN metadata THEN metadata.dict ELSE EmptyDict

\* datetime.now().isoformat()
IsoFormat(t) == "T+" \o ToString(t)

\* the metadata of the persistence claims: None, an empty dictionary, one
\* with a key of the caller's own, and two that bring a key the save generates
PersistMetas ==
    { PlainMeta,
      [isNone |-> FALSE, stream |-> FALSE, dict |-> EmptyDict],
      [isNone |-> FALSE, stream |-> FALSE, dict |-> ("source" :> "web")],
      [isNone |-> FALSE, stream |-> FALSE, dict |-> ("session_id" :> "other")],
      [isNone |-> FALSE, stream |-> FALSE, dict |-> ("timestamp" :> "1999-01-01T00:00:00")] }

\* stream_mode = metadata.get('stream', False) if metadata else False
StreamMode(metadata) == (~metadata.isNone) /\ metadata.stream

\* What memory.search(query=..., user_id=..., limit=5) may hand back: a
\* dictionary with "results" or a plain list, of records that keep their text
\* under one of several keys; or an exception.
\* (recalled: the records of the model's store that the result was made of)
ChatSearchOutcomes ==
    { [raised |-> FALSE, format |-> "dict", recalled |-> {},
       items |-> <<[key |-> "memory", text |-> "m1"], [key |-> "text", text |-> "m2"]>>],
      [raised |-> FALSE, format |-> "list", recalled |-> {},
       items |-> <<[key |-> "content", text |-> "m3"], [key |-> "memory", text |-> ""]>>],
      [raised |-> TRUE, format |-> "list", recalled |-> {}, items |-> <<>>] }

\* The text of the record that memory.add keeps of a turn: what the user said
Derived(r) == r.messages[1].content

RECURSIVE ItemsOf(_)
ItemsOf(texts) ==
    IF texts = {} THEN <<>>
    ELSE LET t == CHOOSE x \in texts : TRUE
         IN  <<[key |-> "memory", text |-> t]>> \o ItemsOf(texts \ {t})

\* A search that returns the records added for the user, their text under
\* "memory", in either of the two formats
RecallOutcomes(added, user_id) ==
    LET records == { r \in added : r.user_id = user_id } IN
    IF records = {} THEN {}
    ELSE { [raised |-> FALSE, format |-> f, recalled |-> records,
            items |-> ItemsOf({ Derived(r) : r \in records })] : f \in {"dict", "list"} }

\* memories_text: of a dictionary's results the records with a "memory" key,
\* of a list the records with a non-empty memory, text or content
\* a chat that reads no memory out of what the search returned
MemoriesTextNone(format, items) == <<>>

RECURSIVE MemoriesText(_, _)
MemoriesText(format, items) ==
    IF items = <<>> THEN <<>>
    ELSE LET m == Head(items)
             keep == IF format = "dict" THEN m.key = "memory" ELSE m.text # ""
         IN  (IF keep THEN <<m.text>> ELSE <<>>) \o MemoriesText(format, Tail(items))

\* What the model call may give: invoke's reply or an exception; stream's
\* iterator or an exception.  The iterator gives chunks, some without a
\* content attribute and some with an empty content, and may raise instead
\* of giving its next chunk (error).
InvokeOutcomes == { [raised |-> FALSE, content |-> "reply"],
                    [raised |-> TRUE, content |-> ""] }
Chunk(text) == [has |-> TRUE, content |-> text, error |-> FALSE]
NoContentChunk == [has |-> FALSE, content |-> "", error |-> FALSE]
StreamError == [has |-> FALSE, content |-> "", error |-> TRUE]

StreamOutcomes ==
    { [raised |-> FALSE, chunks |-> <<Chunk("re"), NoContentChunk, Chunk(""), Chunk("ply")>>],
      [raised |-> FALSE, chunks |-> <<Chunk("re"), StreamError>>],
      [raised |-> TRUE, chunks |-> <<>>] }

Apology == "Sorry, something went wrong while handling your request."

NoHistory == [present |-> FALSE, turns |-> <<>>]
NoChatArgs == [user_id |-> None, message |-> None, session_id |-> None,
               metadata |-> [isNone |-> TRUE, stream |-> FALSE]]
NoResult == [kind |-> None]

\* no chat call has been made
TurnsInit ==
    /\ uuids = 0
    /\ nchats = 0
    /\ chpc = [p \in Turns |-> "idle"]
    /\ chargs = [p \in Turns |-> NoChatArgs]
    /\ chsid = [p \in Turns |-> None]
    /\ chmem = [p \in Turns |-> <<>>]
    /\ chrecalled = [p \in Turns |-> {}]
    /\ chprompt = [p \in Turns |-> <<>>]
    /\ chresult = [p \in Turns |-> NoResult]
    /\ chraised = [p \in Turns |-> "none"]
    /\ chmodel = [p \in Turns |-> FALSE]
    /\ stream = [p \in Turns |-> "none"]
    /\ streamrest = [p \in Turns |-> <<>>]
    /\ response_chunks = [p \in Turns |-> <<>>]
    /\ savepc = [p \in Turns |-> "none"]
    /\ savemsg = [p \in Turns |-> <<>>]
    /\ savemeta = [p \in Turns |-> EmptyDict]
    /\ nadds = [p \in Turns |-> 0]
    /\ stored = {}
    /\ genpc = [p \in Turns |-> "none"]
    /\ emitted = [p \in Turns |-> <<>>]

ChatInit ==
    /\ conversation_history = [k \in SessionKeys |-> NoHistory]
    /\ TurnsInit

\* chat calls are interchangeable: they arrive in the order of their ids
ChatMayArrive(p) == chpc[p] = "idle" /\ (IF p = 1 THEN TRUE ELSE chpc[p - 1] # "idle")

\* chat up to its first await: the session id, the session key, the empty
\* history of a new session; then the search is handed to the executor
ChatStart(p, u, msg, sid, meta) ==
    LET absent == sid \in {None, ""}      \* if not session_id
        session_id == IF absent THEN Uuid(uuids + 1) ELSE sid
        session_key == SessionKey(u, session_id)
    IN  /\ ChatMayArrive(p)
        /\ nchats < MaxChats
        /\ nchats' = nchats + 1
        /\ chargs' = [chargs EXCEPT ![p] =
                [user_id |-> u, message |-> msg, session_id |-> sid, metadata |-> meta]]
        /\ uuids' = IF absent THEN uuids + 1 ELSE uuids
        /\ chsid' = [chsid EXCEPT ![p] = session_id]
        /\ conversation_history' =
              IF conversation_history[session_key].present
              THEN conversation_history
              ELSE [conversation_history EXCEPT
                        ![session_key] = [present |-> TRUE, turns |-> <<>>]]
        /\ chpc' = [chpc EXCEPT ![p] = "search"]
        /\ UNCHANGED <<chmem, chrecalled, chprompt, chresult, chraised, chmodel, stream, streamrest,
                       response_chunks, savepc, savemsg, savemeta, nadds, stored, genpc, emitted, clock, notChat>>

\* the prompt: the system instruction, with the memories found listed in it,
\* and the user's message
MemoryHeader == "\n\nMemories of the user:\n"
MemoryFooter == "\n\nReply on the basis of these memories."

SystemPrompt(memories) ==
    IF memories = <<>> THEN BasePrompt
    ELSE BasePrompt \o MemoryHeader \o JoinBullets(memories) \o MemoryFooter

PromptMessages(memories, message) ==
    << [role |-> "system", content |-> SystemPrompt(memories)],
       [role |-> "user", content |-> message] >>

\* a degraded response that still lists the memories found
DegradedMemoriesKept(found) == found

\* "memories_used": [] of the except branch
DegradedMemories(found) == <<>>

\* the except branch of chat: the apology, with the error attached
Degraded(p, step, found) ==
    /\ chraised' = [chraised EXCEPT ![p] = step]
    /\ chresult' = [chresult EXCEPT ![p] =
            [response |-> Apology,
             user_id |-> chargs[p].user_id,
             session_id |-> chsid[p],
             memories_used |-> DegradedMemories(found),
             timestamp |-> now,
             error |-> step]]
    /\ chpc' = [chpc EXCEPT ![p] = "returned"]

\* the search is back: memories_text and the prompt are built, the model
\* client is configured and the model call is handed to the executor; an
\* exception of the search or of the configuration ends the turn
ChatSearchDone(p, so, configured) ==
    /\ chpc[p] = "search"
    /\ chrecalled' = [chrecalled EXCEPT ![p] = so.recalled]
    /\ IF so.raised
       THEN Degraded(p, "search", <<>>) /\ UNCHANGED <<chmem, chmodel, chprompt>>
       ELSE /\ chmem' = [chmem EXCEPT ![p] = MemoriesText(so.format, so.items)]
            /\ IF ~configured
               THEN Degraded(p, "config", chmem'[p]) /\ UNCHANGED <<chmodel, chprompt>>
               ELSE /\ chpc' = [chpc EXCEPT ![p] = "model"]
                    /\ chmodel' = [chmodel EXCEPT ![p] = TRUE]
                    /\ chprompt' = [chprompt EXCEPT ![p] =
                            PromptMessages(chmem'[p], chargs[p].message)]
                    /\ UNCHANGED <<chresult, chraised>>
    /\ UNCHANGED <<conversation_history, uuids, nchats, chargs, chsid, stream, streamrest,
                   response_chunks, savepc, savemsg, savemeta, nadds, stored, genpc, emitted, clock, notChat>>

\* an exchange of which only the user's turn is kept
ConversationMessagesUserOnly(message, response) ==
    << [role |-> "user", content |-> message] >>

\* an exchange written with the assistant's turn first
ConversationMessagesReversed(message, response) ==
    << [role |-> "assistant", content |-> response],
       [role |-> "user", content |-> message] >>

ConversationMessages(message, response) ==
    << [role |-> "user", content |-> message],
       [role |-> "assistant", content |-> response] >>

\* a chat that awaits the save before it returns
SaveTaskAwaited == "saved"

\* asyncio.create_task(self._save_memory_background(...)): the task is created
\* and left to the event loop; nothing of it has run when chat goes on
SaveTask == "scheduled"

\* llm_client.invoke is back (metadata asked for no stream): the save is
\* scheduled, the two turns are appended to the session's history and the
\* result is returned; an exception of the model ends the turn
ChatInvokeDone(p, mo) ==
    LET session_key == SessionKey(chargs[p].user_id, chsid[p])
        msgs == ConversationMessages(chargs[p].message, mo.content)
    IN  /\ chpc[p] = "model"
        /\ ~StreamMode(chargs[p].metadata)
        /\ IF mo.raised
           THEN /\ Degraded(p, "model", chmem[p])
                /\ UNCHANGED <<conversation_history, savepc, savemsg>>
           ELSE /\ savepc' = [savepc EXCEPT ![p] = SaveTask]
                /\ savemsg' = [savemsg EXCEPT ![p] = msgs]
                /\ IF conversation_history[session_key].present
                   THEN /\ conversation_history' = [conversation_history EXCEPT
                                ![session_key].turns = @ \o msgs]
                        /\ chresult' = [chresult EXCEPT ![p] =
                                [response |-> mo.content,
                                 user_id |-> chargs[p].user_id,
                                 session_id |-> chsid[p],
                                 memories_used |-> chmem[p],
                                 timestamp |-> now,
                                 processing_time |-> 0]]
                        /\ chpc' = [chpc EXCEPT ![p] = "returned"]
                        /\ UNCHANGED chraised
                   ELSE \* KeyError: the session's history is gone
                        /\ Degraded(p, "history", chmem[p])
                        /\ UNCHANGED conversation_history
        /\ UNCHANGED <<uuids, nchats, chargs, chsid, chmem, chrecalled, chprompt, chmodel, stream, streamrest,
                       response_chunks, savemeta, nadds, stored, genpc, emitted, clock, notChat>>

\* llm_client.stream is back (metadata asked for a stream): the result carries
\* the generator collect_stream(), not yet started, and chat returns at once
ChatStreamOpened(p, mo) ==
    /\ chpc[p] = "model"
    /\ StreamMode(chargs[p].metadata)
    /\ IF mo.raised
       THEN /\ Degraded(p, "model", chmem[p])
            /\ UNCHANGED <<stream, streamrest>>
       ELSE /\ stream' = [stream EXCEPT ![p] = "open"]
            /\ streamrest' = [streamrest EXCEPT ![p] = mo.chunks]
            /\ chresult' = [chresult EXCEPT ![p] =
                    [stream |-> TRUE,
                     response_generator |-> p,
                     user_id |-> chargs[p].user_id,
                     session_id |-> chsid[p],
                     memories_used |-> chmem[p],
                     timestamp |-> now]]
            /\ chpc' = [chpc EXCEPT ![p] = "returned"]
            /\ UNCHANGED chraised
    /\ UNCHANGED <<conversation_history, uuids, nchats, chargs, chsid, chmem, chrecalled, chprompt, chmodel,
                   response_chunks, savepc, savemsg, savemeta, nadds, stored, genpc, emitted, clock, notChat>>

\* the consumer of response_generator asks for the next fragment:
\* collect_stream gathers and yields the next chunk that has a content, or
\* ends when the model's stream has ended
StreamPull(p) ==
    IF streamrest[p] = <<>>
    THEN /\ stream' = [stream EXCEPT ![p] = "exhausted"]
         /\ UNCHANGED <<streamrest, response_chunks>>
    ELSE IF Head(streamrest[p]).error
    THEN /\ stream' = [stream EXCEPT ![p] = "failed"]
         /\ UNCHANGED <<streamrest, response_chunks>>
    ELSE /\ streamrest' = [streamrest EXCEPT ![p] = Tail(@)]
         /\ response_chunks' = [response_chunks EXCEPT ![p] =
                 IF Head(streamrest[p]).has
                 THEN Append(@, Head(streamrest[p]).content) ELSE @]
         /\ UNCHANGED stream

StreamNext(p) ==
    /\ stream[p] = "open"
    /\ StreamPull(p)
    /\ UNCHANGED <<conversation_history, uuids, nchats, chpc, chargs, chsid, chmem, chrecalled, chprompt, chresult,
                   chraised, chmodel, savepc, savemsg, savemeta, nadds, stored, genpc, emitted, clock, notChat>>

\* a save that schedules itself again when memory.add has raised
SaveAfterRaiseRetry == "scheduled"

\* except Exception: the failure is logged and the task ends
SaveAfterRaise == "failed"

\* {"session_id": session_id, "timestamp": ..., **(metadata or {})}: the
\* caller's keys come last, so a key given twice keeps the caller's value
AddMetadata(session_id, timestamp, metadata) ==
    MetaDict(metadata) @@ [session_id |-> session_id, timestamp |-> timestamp]

\* _save_memory_background starts: memory.add is handed to the executor
SaveStart(p) ==
    /\ savepc[p] = "scheduled"
    /\ savepc' = [savepc EXCEPT ![p] = "adding"]
    /\ savemeta' = [savemeta EXCEPT ![p] =
            AddMetadata(chsid[p], IsoFormat(now), chargs[p].metadata)]
    /\ nadds' = [nadds EXCEPT ![p] = @ + 1]
    /\ UNCHANGED <<conversation_history, uuids, nchats, chpc, chargs, chsid, chmem, chrecalled, chprompt, chresult,
                   chraised, chmodel, stream, streamrest, response_chunks, savemsg,
                   stored, genpc, emitted, clock, notChat>>

\* memory.add is back: stored, or failed and logged
SaveDone(p, ok) ==
    /\ savepc[p] = "adding"
    /\ savepc' = [savepc EXCEPT ![p] = IF ok THEN "saved" ELSE SaveAfterRaise]
    /\ stored' = IF ok
                 THEN stored \cup {[user_id |-> chargs[p].user_id,
                                    session_id |-> chsid[p],
                                    messages |-> savemsg[p]]}
                 ELSE stored
    /\ UNCHANGED <<conversation_history, uuids, nchats, chpc, chargs, chsid, chmem, chrecalled, chprompt, chresult,
                   chraised, chmodel, stream, streamrest, response_chunks, savemsg,
                   savemeta, nadds, genpc, emitted, clock, notChat>>

SaveSteps ==
    \/ \E p \in Turns : SaveStart(p)
    \/ \E p \in Turns, ok \in BOOLEAN : SaveDone(p, ok)

\* chat's caller has its result and the turn's save has ended: nothing of the
\* call is left but what it wrote to the session's history and to the store
ChatForget(p) ==
    /\ chpc[p] = "returned"
    /\ savepc[p] \notin {"scheduled", "adding"}
    /\ stream[p] # "open"
    /\ genpc[p] # "content"
    /\ chpc' = [chpc EXCEPT ![p] = "idle"]
    /\ chargs' = [chargs EXCEPT ![p] = NoChatArgs]
    /\ chsid' = [chsid EXCEPT ![p] = None]
    /\ chmem' = [chmem EXCEPT ![p] = <<>>]
    /\ chrecalled' = [chrecalled EXCEPT ![p] = {}]
    /\ chprompt' = [chprompt EXCEPT ![p] = <<>>]
    /\ chresult' = [chresult EXCEPT ![p] = NoResult]
    /\ chraised' = [chraised EXCEPT ![p] = "none"]
    /\ chmodel' = [chmodel EXCEPT ![p] = FALSE]
    /\ stream' = [stream EXCEPT ![p] = "none"]
    /\ streamrest' = [streamrest EXCEPT ![p] = <<>>]
    /\ response_chunks' = [response_chunks EXCEPT ![p] = <<>>]
    /\ savepc' = [savepc EXCEPT ![p] = "none"]
    /\ savemsg' = [savemsg EXCEPT ![p] = <<>>]
    /\ savemeta' = [savemeta EXCEPT ![p] = EmptyDict]
    /\ nadds' = [nadds EXCEPT ![p] = 0]
    /\ genpc' = [genpc EXCEPT ![p] = "none"]
    /\ emitted' = [emitted EXCEPT ![p] = <<>>]
    /\ UNCHANGED <<conversation_history, uuids, nchats, stored, clock, notChat>>

-----------------------------------------------------------------------------
(* The route /chat/message (and /chat/stream) for a request that asks for a
   stream: chat is called with metadata['stream'] = True and, when its result
   is a stream, the response body is generate() *)

StreamMeta == [isNone |-> FALSE, stream |-> TRUE]

MetadataFragment(result) ==
    [type |-> "metadata", content |-> "",
     user_id |-> result.user_id, session_id |-> result.session_id,
     memories_used |-> result.memories_used, timestamp |-> result.timestamp]
ContentFragment(chunk) == [type |-> "content", content |-> chunk]
DoneFragment == [type |-> "done", content |-> ""]

\* if result.get('stream')
IsStream(result) == "stream" \in DOMAIN result

\* the first fragment is asked of generate(): the metadata
GenerateStart(p) ==
    /\ chpc[p] = "returned"
    /\ IsStream(chresult[p])
    /\ genpc[p] = "none"
    /\ genpc' = [genpc EXCEPT ![p] = "content"]
    /\ emitted' = [emitted EXCEPT ![p] = <<MetadataFragment(chresult[p])>>]
    /\ UNCHANGED <<conversation_history, uuids, nchats, chpc, chargs, chsid, chmem, chrecalled, chprompt,
                   chresult, chraised, chmodel, stream, streamrest, response_chunks,
                   savepc, savemsg, savemeta, nadds, stored, clock, notChat>>

\* what generate() has yielded once response_generator has been asked for its
\* next chunk: the chunk, if it is not empty; the end marker, if the generator
\* has ended; nothing more, if it raised
EmittedAfterPull(e, st, chunk) ==
    IF st = "exhausted" THEN Append(e, DoneFragment)
    ELSE IF st = "failed" THEN e
    ELSE IF chunk.has /\ chunk.content # "" THEN Append(e, ContentFragment(chunk.content))
    ELSE e

\* the next fragment is asked of generate(): it asks response_generator for
\* its next chunk
GenerateNext(p) ==
    /\ genpc[p] = "content"
    /\ stream[p] = "open"
    /\ StreamPull(p)
    /\ emitted' = [emitted EXCEPT ![p] =
            EmittedAfterPull(@, stream'[p],
                             IF streamrest[p] = <<>> THEN NoContentChunk
                             ELSE Head(streamrest[p]))]
    /\ genpc' = [genpc EXCEPT ![p] =
            CASE stream'[p] = "exhausted" -> "done"
              [] stream'[p] = "failed" -> "failed"
              [] OTHER -> "content"]
    /\ UNCHANGED <<conversation_history, uuids, nchats, chpc, chargs, chsid, chmem, chrecalled, chprompt,
                   chresult, chraised, chmodel, savepc, savemsg, savemeta, nadds, stored, clock, notChat>>

NextRoute ==
    \/ \E p \in Turns, u \in Users, msg \in Messages, sid \in GivenSids :
            ChatStart(p, u, msg, sid, StreamMeta)
    \/ \E p \in Turns, so \in ChatSearchOutcomes, configured \in BOOLEAN :
            ChatSearchDone(p, so, configured)
    \/ \E p \in Turns, mo \in StreamOutcomes : ChatStreamOpened(p, mo)
    \/ \E p \in Turns : GenerateStart(p)
    \/ \E p \in Turns : GenerateNext(p)

-----------------------------------------------------------------------------
(* Concurrent chat calls of several users on several sessions, no stream
   asked for; the saves they schedule have not run yet *)

NextSession ==
    \/ \E p \in Turns, u \in SessionUsers, msg \in Messages, sid \in SessionSids :
            ChatStart(p, u, msg, sid, PlainMeta)
    \/ \E p \in Turns, so \in ChatSearchOutcomes, configured \in BOOLEAN :
            ChatSearchDone(p, so, configured)
    \/ \E p \in Turns, mo \in InvokeOutcomes : ChatInvokeDone(p, mo)

-----------------------------------------------------------------------------
(* send_message, the handler of /chat/message, for one request: the chat
   calls it makes are the turns 1 and 2 *)

NoRequest == [stream |-> FALSE, session_id |-> None, message |-> None]

\* the requests: stream asked for or not, with a session id or without
Requests ==
    { [stream |-> st, session_id |-> sid, message |-> msg] :
        st \in BOOLEAN, sid \in GivenSids, msg \in Messages }

\* if request.stream: the first agent.chat, with metadata['stream'] = True;
\* otherwise the handler goes straight to the call of the plain mode
RouteFirstCall ==
    /\ request # NoRequest
    /\ nchats = 0
    /\ ChatStart(1, "u1", request.message, request.session_id,
                 IF request.stream THEN StreamMeta ELSE PlainMeta)

\* the streaming call has returned a result without the stream flag: the
\* handler leaves the `if request.stream` block and goes on to the plain mode
FallsThrough(req, result) == req.stream /\ ~IsStream(result)

\* the plain mode's agent.chat, made after the streaming call
RouteSecondCall ==
    /\ chpc[1] = "returned"
    /\ FallsThrough(request, chresult[1])
    /\ nchats = 1
    /\ ChatStart(2, "u1", request.message, request.session_id, PlainMeta)

NextMessage ==
    \/ RouteFirstCall
    \/ RouteSecondCall
    \/ \E p \in Turns, so \in ChatSearchOutcomes, configured \in BOOLEAN :
            ChatSearchDone(p, so, configured)
    \/ \E p \in Turns, mo \in InvokeOutcomes : ChatInvokeDone(p, mo)
    \/ \E p \in Turns, mo \in StreamOutcomes : ChatStreamOpened(p, mo)
    \/ \E p \in Turns : GenerateStart(p)
    \/ \E p \in Turns : GenerateNext(p)

-----------------------------------------------------------------------------
(* rate_limit_middleware: the whole middleware up to `await call_next` is one
   step. The server listens on 0.0.0.0, so request.client.host is a dotted
   quad without a colon, and the key f"{client_ip}:{current_time}" splits at
   ':' into the two fields <<client_ip, minute_now>> *)

RateClients == {"10.0.0.1", "10.0.0.2"}

RateKey(client_ip, minute) == <<client_ip, minute>>

\* int(k.split(':')[1])
KeyMinute(k) == k[2]

NoAnswer == [client |-> None, minute |-> 0, status |-> None]

RateInit ==
    /\ request_counts = <<>>
    /\ minute_now = 0
    /\ nrequests = 0
    /\ rlanswer = NoAnswer
    /\ forwarded = [k \in RateClients \X (0..MaxMinute) |-> 0]

\* a middleware that never removes a counter
OldKeysNone(counts, minute) == {}

\* old_keys: the keys of windows before current_time - 5
OldKeys(counts, minute) ==
    { k \in DOMAIN counts : KeyMinute(k) < minute - CLEANUP_AGE }

\* the dict after `del request_counts[old_key]` for every old key
WithoutOld(counts, minute) ==
    [k \in DOMAIN counts \ OldKeys(counts, minute) |-> counts[k]]

\* the dict after the `if key in request_counts ... else` statement
Counted(counts, key) ==
    IF key \in DOMAIN counts
    THEN [counts EXCEPT ![key] = @ + 1]
    ELSE (key :> 1) @@ counts

RateRequest(client_ip) ==
    LET key == RateKey(client_ip, minute_now)
        counted == Counted(request_counts, key)
        limited == key \in DOMAIN request_counts /\ counted[key] > RATE_LIMIT
    IN  /\ nrequests < MaxRequests
        /\ nrequests' = nrequests + 1
        /\ request_counts' = IF limited THEN counted
                              ELSE WithoutOld(counted, minute_now)
        /\ rlanswer' = [client |-> client_ip, minute |-> minute_now,
                        status |-> IF limited THEN "429" ELSE "forwarded"]
        /\ forwarded' = IF limited THEN forwarded
                         ELSE [forwarded EXCEPT ![key] = @ + 1]
        /\ UNCHANGED <<minute_now, notRate>>

\* a minute passes
RateTick ==
    /\ minute_now < MaxMinute
    /\ minute_now' = minute_now + 1
    /\ UNCHANGED <<request_counts, nrequests, rlanswer, forwarded, notRate>>

NextRate ==
    \/ \E c \in RateClients : RateRequest(c)
    \/ RateTick

-----------------------------------------------------------------------------
(* Concurrent chats on one session, with messages and replies that differ *)

PairMessages == {"hi", "yo"}
PairOutcomes == InvokeOutcomes \cup { [raised |-> FALSE, content |-> "sure"] }

NextPairs ==
    \/ \E p \in Turns, msg \in PairMessages, meta \in Metas :
            ChatStart(p, "u1", msg, "s1", meta)
    \/ \E p \in Turns, so \in ChatSearchOutcomes : ChatSearchDone(p, so, TRUE)
    \/ \E p \in Turns, mo \in PairOutcomes : ChatInvokeDone(p, mo)
    \/ \E p \in Turns, mo \in StreamOutcomes : ChatStreamOpened(p, mo)

-----------------------------------------------------------------------------
(* clear_user_memories *)

ClearInit ==
    /\ clpc = "idle"
    /\ cluser = None
    /\ clresult = None
    /\ nclears = 0

\* what may follow a user id and "_" in a session key: a session id, or the
\* rest of a longer user id with its "_" and a session id
KeyRests == SessionIds \cup { SessionKey("s1", sid) : sid \in SessionIds }

\* key.startswith(f"{user_id}_")
StartsWithUser(key, user_id) == \E rest \in KeyRests : key = (user_id \o "_") \o rest

\* clear_user_memories up to its await: memory.delete_all goes to the executor
ClearStart(u) ==
    /\ clpc = "idle"
    /\ nclears < MaxClears
    /\ nclears' = nclears + 1
    /\ clpc' = "deleting"
    /\ cluser' = u
    /\ clresult' = None
    /\ UNCHANGED <<conversation_history, clock, notClear>>

\* a clear that drops the histories before it knows delete_all has worked
HistoryAfterFailedClearDropped(h, user_id) ==
    [k \in SessionKeys |-> IF StartsWithUser(k, user_id) THEN NoHistory ELSE h[k]]

\* except Exception: the histories have not been touched
HistoryAfterFailedClear(h, user_id) == h

\* memory.delete_all is back: the histories whose key starts with the user
\* id and "_" are deleted and True is returned; if it raised, False is
ClearDone(ok) ==
    /\ clpc = "deleting"
    /\ clpc' = "idle"
    /\ clresult' = IF ok THEN "True" ELSE "False"
    /\ conversation_history' =
          IF ok
          THEN [k \in SessionKeys |->
                  IF StartsWithUser(k, cluser) THEN NoHistory ELSE conversation_history[k]]
          ELSE HistoryAfterFailedClear(conversation_history, cluser)
    /\ UNCHANGED <<cluser, nclears, clock, notClear>>

\* chats on the session ("u1", "s1") next to clears of the user's memories
NextClear ==
    \/ \E p \in Turns, msg \in Messages : ChatStart(p, "u1", msg, "s1", PlainMeta)
    \/ \E p \in Turns, so \in ChatSearchOutcomes, configured \in BOOLEAN :
            ChatSearchDone(p, so, configured)
    \/ \E p \in Turns, mo \in InvokeOutcomes : ChatInvokeDone(p, mo)
    \/ ClearStart("u1")
    \/ \E ok \in BOOLEAN : ClearDone(ok)

\* chats of several users on several sessions next to clears
NextClearScope ==
    \/ NextSession
    \/ \E u \in SessionUsers : ClearStart(u)
    \/ \E ok \in BOOLEAN : ClearDone(ok)

-----------------------------------------------------------------------------
(* Turns of one user, each on a session of its own, with a store whose search
   may return the records that the saves have added *)

NextRecall ==
    \/ \E p \in Turns, msg \in Messages, meta \in Metas :
            ChatStart(p, "u1", msg, None, meta)
    \/ \E p \in Turns, configured \in BOOLEAN :
          \E so \in ChatSearchOutcomes \cup RecallOutcomes(stored, chargs[p].user_id) :
            ChatSearchDone(p, so, configured)
    \/ \E p \in Turns, mo \in InvokeOutcomes : ChatInvokeDone(p, mo)
    \/ \E p \in Turns, mo \in StreamOutcomes : ChatStreamOpened(p, mo)
    \/ \E p \in Turns : SaveStart(p)
    \/ \E p \in Turns, ok \in BOOLEAN : SaveDone(p, ok)

-----------------------------------------------------------------------------
(* Turns whose caller brings a metadata dictionary, and their saves *)

PersistTickSteps == {1}

NextPersist ==
    \/ \E p \in Turns, msg \in Messages, sid \in GivenSids, meta \in PersistMetas :
            ChatStart(p, "u1", msg, sid, meta)
    \/ \E p \in Turns, so \in ChatSearchOutcomes, configured \in BOOLEAN :
            ChatSearchDone(p, so, configured)
    \/ \E p \in Turns, mo \in InvokeOutcomes : ChatInvokeDone(p, mo)
    \/ SaveSteps
    \/ Tick(PersistTickSteps) /\ UNCHANGED <<chvars, notChat>>

-----------------------------------------------------------------------------
(* Turns of one session that ask for no stream, each with its save *)

NextSave ==
    \/ \E p \in Turns, msg \in Messages : ChatStart(p, "u1", msg, "s1", PlainMeta)
    \/ \E p \in Turns, so \in ChatSearchOutcomes, configured \in BOOLEAN :
            ChatSearchDone(p, so, configured)
    \/ \E p \in Turns, mo \in InvokeOutcomes : ChatInvokeDone(p, mo)
    \/ SaveSteps

-----------------------------------------------------------------------------
(* Context builders on the session ("u1", "s1"), which earlier exchanges have
   left with a history of some length, and one chat turn on that session
   running next to them *)

\* the i-th turn of the session so far: the user and the assistant in turn,
\* each turn with a text of its own
PastTurn(i) ==
    [role |-> IF i % 2 = 1 THEN "user" ELSE "assistant", content |-> "t" \o ToString(i)]

PastHistory(n) == [i \in 1..n |-> PastTurn(i)]

\* a session not made yet, one exchange, a full window, more than a window
PastLengths == {0, 2, HISTORY_WINDOW, 2 * MaxExchanges}

HistoryInit ==
    \E n \in PastLengths :
        conversation_history =
            [k \in SessionKeys |->
                IF k = SessionKey("u1", "s1") /\ n > 0
                THEN [present |-> TRUE, turns |-> PastHistory(n)]
                ELSE NoHistory]

\* a search that finds two memories, next to those that find one or none
BuilderSearchOutcomes ==
    SearchOutcomes
        \cup { [raised |-> FALSE, results |-> <<[memory |-> "m1"], [memory |-> "m2"]>>] }

BuilderChatOutcomes ==
    ChatSearchOutcomes
        \cup { [raised |-> FALSE, format |-> "list", recalled |-> {},
                items |-> <<[key |-> "memory", text |-> "m1"],
                            [key |-> "memory", text |-> "m2"]>>] }

NextBuilder ==
    \/ \E p \in Callers, q \in Queries : BuilderLookup(p, "u1", q, "s1")
    \/ \E p \in Callers, o \in BuilderSearchOutcomes : SearchReturn(p, o)
    \/ \E msg \in Messages : ChatStart(1, "u1", msg, "s1", PlainMeta)
    \/ \E so \in BuilderChatOutcomes : ChatSearchDone(1, so, TRUE)
    \/ \E mo \in InvokeOutcomes : ChatInvokeDone(1, mo)

-----------------------------------------------------------------------------
(* get_session: the shared aiohttp.ClientSession, and close *)

Clients == 1..NClients

HttpInit ==
    /\ hsession = 0
    /\ hopen = {}
    /\ hcreated = 0
    /\ hconnclosed = FALSE
    /\ hpc = [p \in Clients |-> "idle"]
    /\ hgot = [p \in Clients |-> 0]

\* a get_session that makes a session for every caller
NeedsSessionAlways(session, open) == TRUE

\* self._session is None or self._session.closed
NeedsSession(session, open) == session = 0 \/ session \notin open

\* get_session up to its yield.  The lock is free whenever a caller reaches
\* it, since no holder awaits inside it: acquire returns without suspending,
\* and the test, the creation and the release run in one stretch, as does
\* the yield of self._session that follows.  A session made on the agent's
\* connector after close() has closed that connector may count as closed
\* from the start (aiohttp derives `closed` from the connector).
GetSession(p) ==
    /\ hpc[p] = "idle"
    /\ IF NeedsSession(hsession, hopen)
       THEN /\ hcreated < MaxSessions
            /\ hcreated' = hcreated + 1
            /\ hsession' = hcreated + 1
            /\ \E born_open \in (IF hconnclosed THEN BOOLEAN ELSE {TRUE}) :
                  hopen' = IF born_open THEN hopen \cup {hcreated + 1} ELSE hopen
       ELSE UNCHANGED <<hsession, hopen, hcreated>>
    /\ hgot' = [hgot EXCEPT ![p] = hsession']
    /\ hpc' = [hpc EXCEPT ![p] = "using"]
    /\ UNCHANGED <<hconnclosed, clock, notHttp>>

\* the body of `async with self.get_session() as session` ends
ReleaseSession(p) ==
    /\ hpc[p] = "using"
    /\ hpc' = [hpc EXCEPT ![p] = "idle"]
    /\ UNCHANGED <<hsession, hopen, hcreated, hconnclosed, hgot, clock, notHttp>>

\* close(): the current session, if open, is closed, then the connector;
\* self._session keeps pointing at the closed session
CloseAgent ==
    /\ hsession # 0 \/ ~hconnclosed
    /\ hopen' = hopen \ {hsession}
    /\ hconnclosed' = TRUE
    /\ UNCHANGED <<hsession, hcreated, hpc, hgot, clock, notHttp>>

NextHttp ==
    \/ \E p \in Clients : GetSession(p)
    \/ \E p \in Clients : ReleaseSession(p)
    \/ CloseAgent

-----------------------------------------------------------------------------
(* MemoryService: add_memory, delete_memory, update_memory *)

ServiceIds == {"id1", "id2"}
NewContents == {"likes tea"}

\* the metadata argument: None, an empty dictionary, a dictionary with a key
ServiceMetas ==
    { [isNone |-> TRUE, dict |-> EmptyDict],
      [isNone |-> FALSE, dict |-> EmptyDict],
      [isNone |-> FALSE, dict |-> ("tag" :> "x")] }

\* if metadata:
Truthy(metadata) == ~metadata.isNone /\ DOMAIN metadata.dict # {}

NoServiceCall == [op |-> None]

ServiceInit ==
    /\ mcalls = <<>>
    /\ mrecords = {}
    /\ svargs = NoServiceCall
    /\ svlast = NoResult

\* the record the store makes of an add: the store numbers its records
StoreId(n) == "mem-" \o ToString(n)

\* add_memory: the default metadata, overridden by the caller's, and one
\* memory.add, which stores the record or raises
\* default_metadata of the n-th call on the store, after the update
AddDefaultMetadata(metadata, n) ==
    (IF Truthy(metadata) THEN metadata.dict ELSE EmptyDict)
        @@ [timestamp |-> IsoFormat(now), memory_id |-> Uuid(n)]

\* the memory.add call that add_memory makes as the n-th call on the store
AddMemoryCall(content, user_id, metadata, n) ==
    [op |-> "add", user_id |-> user_id,
     messages |-> <<[role |-> "user", content |-> content]>>,
     metadata |-> AddDefaultMetadata(metadata, n)]

\* what add_memory returns: the success dictionary, or the one of its except
AddMemoryResult(user_id, metadata, n, ok) ==
    IF ok
    THEN [success |-> TRUE, message |-> "added",
          memory_id |-> AddDefaultMetadata(metadata, n)["memory_id"],
          user_id |-> user_id,
          timestamp |-> AddDefaultMetadata(metadata, n)["timestamp"]]
    ELSE [success |-> FALSE, message |-> "add failed"]

AddMemory(content, user_id, metadata, ok) ==
    LET n == Len(mcalls) + 1
    IN  /\ Len(mcalls) < MaxStoreCalls
        /\ mcalls' = Append(mcalls, AddMemoryCall(content, user_id, metadata, n))
        /\ mrecords' = IF ok THEN mrecords \cup {StoreId(n)} ELSE mrecords
        /\ svargs' = [op |-> "add_memory", user_id |-> user_id]
        /\ svlast' = AddMemoryResult(user_id, metadata, n, ok)
        /\ UNCHANGED <<clock, notService>>

\* delete_memory: one memory.delete, which removes the record or raises
DeleteMemory(memory_id, ok) ==
    /\ Len(mcalls) < MaxStoreCalls
    /\ mcalls' = Append(mcalls, [op |-> "delete", memory_id |-> memory_id])
    /\ mrecords' = IF ok THEN mrecords \ {memory_id} ELSE mrecords
    /\ svargs' = [op |-> "delete_memory", memory_id |-> memory_id]
    /\ svlast' = IF ok
                 THEN [success |-> TRUE, message |-> "deleted", memory_id |-> memory_id,
                       timestamp |-> IsoFormat(now)]
                 ELSE [success |-> FALSE, message |-> "delete failed"]
    /\ UNCHANGED <<clock, notService>>

\* an update done the way its comment describes: delete, then add
UpdateCallsDeleteAdd(memory_id, new_content, update_metadata) ==
    << [op |-> "delete", memory_id |-> memory_id],
       [op |-> "add", user_id |-> None,
        messages |-> <<[role |-> "user", content |-> new_content]>>,
        metadata |-> update_metadata] >>

\* the calls update_memory makes on self.memory: none
UpdateCalls(memory_id, new_content, update_metadata) == <<>>

\* update_memory: the update metadata is put together and dropped, the
\* attempt is logged, and success is returned
UpdateMemory(memory_id, new_content, metadata) ==
    LET update_metadata ==
            (IF Truthy(metadata) THEN metadata.dict ELSE EmptyDict)
                @@ [updated_at |-> IsoFormat(now), original_memory_id |-> memory_id]
    IN  /\ mcalls' = mcalls \o UpdateCalls(memory_id, new_content, update_metadata)
        /\ Len(mcalls') <= MaxStoreCalls
        /\ UNCHANGED mrecords
        /\ svargs' = [op |-> "update_memory", memory_id |-> memory_id]
        /\ svlast' = [success |-> TRUE, message |-> "updated", memory_id |-> memory_id,
                      timestamp |-> IsoFormat(now)]
        /\ UNCHANGED <<clock, notService>>

ServiceTickSteps == {1}

\* batch_add_memories. An item of memories_data is a dictionary, with or
\* without a 'content' key, or something without .get (here: a string)
BatchMetas ==
    { [isNone |-> FALSE, dict |-> EmptyDict],
      [isNone |-> FALSE, dict |-> ("tag" :> "x")] }

BatchItems ==
    { [isDict |-> TRUE, dict |-> ("content" :> c), metadata |-> m] :
        c \in NewContents, m \in BatchMetas }
    \cup { [isDict |-> TRUE, dict |-> EmptyDict,
             metadata |-> [isNone |-> FALSE, dict |-> EmptyDict]],
           [isDict |-> FALSE, dict |-> EmptyDict,
             metadata |-> [isNone |-> FALSE, dict |-> EmptyDict]] }

\* the lists of at most MaxBatch items
BatchLists == UNION { [1..n -> BatchItems] : n \in 0..MaxBatch }

\* memory_data.get('content', '')
ItemContent(item) ==
    IF "content" \in DOMAIN item.dict THEN item.dict["content"] ELSE ""

\* the state of the loop before the first item
BatchStart ==
    [calls |-> mcalls, records |-> mrecords, results |-> <<>>,
     success_count |-> 0, failed_count |-> 0]

\* a batch that reports success whatever failed
BatchSuccessAlways(failed_count) == TRUE

\* "success": failed_count == 0
BatchSuccess(failed_count) == failed_count = 0

\* one pass of the for loop, on the item of index i - 1; oks[i] says whether
\* memory.add returns for it
BatchItem(st, item, i, user_id, ok) ==
    IF ~item.isDict
    THEN \* .get raises: the except of the loop
         [st EXCEPT !.failed_count = @ + 1,
                    !.results = Append(@, [index |-> i - 1,
                                           result |-> [success |-> FALSE,
                                                       message |-> "failed"]])]
    ELSE LET n == Len(st.calls) + 1
             result == AddMemoryResult(user_id, item.metadata, n, ok)
         IN  [calls |-> Append(st.calls,
                               AddMemoryCall(ItemContent(item), user_id, item.metadata, n)),
              records |-> IF ok THEN st.records \cup {StoreId(n)} ELSE st.records,
              results |-> Append(st.results, [index |-> i - 1, result |-> result]),
              success_count |-> IF result.success THEN st.success_count + 1
                                ELSE st.success_count,
              failed_count |-> IF result.success THEN st.failed_count
                               ELSE st.failed_count + 1]

RECURSIVE BatchLoop(_, _, _, _)
\* the loop over the first i items
BatchLoop(memories_data, user_id, oks, i) ==
    IF i = 0 THEN BatchStart
    ELSE BatchItem(BatchLoop(memories_data, user_id, oks, i - 1),
                   memories_data[i], i, user_id, oks[i])

BatchAddMemories(memories_data, user_id, oks) ==
    LET st == BatchLoop(memories_data, user_id, oks, Len(memories_data))
    IN  /\ Len(mcalls) < MaxStoreCalls
        /\ mcalls' = st.calls
        /\ mrecords' = st.records
        /\ svargs' = [op |-> "batch_add_memories", user_id |-> user_id,
                      memories_data |-> memories_data]
        /\ svlast' = [success |-> BatchSuccess(st.failed_count),
                      message |-> "batch done",
                      user_id |-> user_id,
                      total_processed |-> Len(memories_data),
                      success_count |-> st.success_count,
                      failed_count |-> st.failed_count,
                      results |-> st.results,
                      timestamp |-> IsoFormat(now)]
        /\ UNCHANGED <<clock, notService>>

NextBatch ==
    \E data \in BatchLists :
        \E oks \in [1..Len(data) -> BOOLEAN] : BatchAddMemories(data, "u1", oks)


NextService ==
    \/ \E c \in NewContents, u \in Users, m \in ServiceMetas, ok \in BOOLEAN :
            AddMemory(c, u, m, ok)
    \/ \E id \in ServiceIds \cup mrecords, ok \in BOOLEAN : DeleteMemory(id, ok)
    \/ \E id \in ServiceIds \cup mrecords, c \in NewContents, m \in ServiceMetas :
            UpdateMemory(id, c, m)
    \/ Tick(ServiceTickSteps) /\ UNCHANGED <<svvars, notService>>

-----------------------------------------------------------------------------
(* A CircuitBreaker with its callers, next to the agent's chat turns *)

NextGuard ==
    \/ NextCB
    \/ \E p \in Turns, msg \in Messages : ChatStart(p, "u1", msg, None, PlainMeta)
    \/ \E p \in Turns, so \in ChatSearchOutcomes, configured \in BOOLEAN :
            ChatSearchDone(p, so, configured)
    \/ \E p \in Turns, mo \in InvokeOutcomes : ChatInvokeDone(p, mo)

-----------------------------------------------------------------------------

NextChat ==
    \/ \E p \in Turns, u \in Users, msg \in Messages, sid \in GivenSids, meta \in Metas :
            ChatStart(p, u, msg, sid, meta)
    \/ \E p \in Turns, so \in ChatSearchOutcomes, configured \in BOOLEAN :
            ChatSearchDone(p, so, configured)
    \/ \E p \in Turns, mo \in InvokeOutcomes : ChatInvokeDone(p, mo)
    \/ \E p \in Turns, mo \in StreamOutcomes : ChatStreamOpened(p, mo)
    \/ \E p \in Turns : StreamNext(p)
    \/ \E p \in Turns : SaveStart(p)
    \/ \E p \in Turns, ok \in BOOLEAN : SaveDone(p, ok)

\* One client's session: chat after chat on the session ("u1", "s1"), no
\* stream asked for
NextHistory ==
    \/ \E p \in Turns, msg \in Messages : ChatStart(p, "u1", msg, "s1", PlainMeta)
    \/ \E p \in Turns, so \in ChatSearchOutcomes, configured \in BOOLEAN :
            ChatSearchDone(p, so, configured)
    \/ \E p \in Turns, mo \in InvokeOutcomes : ChatInvokeDone(p, mo)
    \/ \E p \in Turns : SaveStart(p)
    \/ \E p \in Turns, ok \in BOOLEAN : SaveDone(p, ok)
    \/ \E p \in Turns : ChatForget(p)

-----------------------------------------------------------------------------

vars == <<now, ticks, rvars, bvars, cbvars, lvars, chvars, hvars, svvars, clvars, request,
          rlvars>>

ClockInit == now = 0 /\ ticks = 0

Init ==
    /\ ClockInit /\ RetrInit /\ BuilderInit /\ CBInit /\ LLMInit /\ ChatInit /\ HttpInit
    /\ ServiceInit /\ ClearInit
    /\ request = NoRequest
    /\ RateInit

SpecRetr == Init /\ [][NextRetr]_vars

SpecRetrFail == Init /\ [][NextRetrFail]_vars

SpecCB == Init /\ [][NextCB]_vars

SpecService == Init /\ [][NextService]_vars
SpecBatch == Init /\ [][NextBatch]_vars

SpecHttp == Init /\ [][NextHttp]_vars

InitBuilder ==
    /\ ClockInit /\ RetrInit /\ BuilderInit /\ CBInit /\ LLMInit /\ HttpInit
    /\ ServiceInit /\ ClearInit /\ HistoryInit /\ TurnsInit
    /\ request = NoRequest
    /\ RateInit

SpecBuilder == InitBuilder /\ [][NextBuilder]_vars

SpecPersist == Init /\ [][NextPersist]_vars

\* a task made by create_task is run by the loop, and the executor's call of
\* memory.add returns or raises
SpecSave == Init /\ [][NextSave]_vars /\ WF_vars(SaveSteps)

\* every request ends (ClientTimeout bounds it) and the event loop resumes the
\* coroutine, so the retry loop keeps taking its steps
SpecLLM == Init /\ [][NextLLM]_vars /\ WF_vars(NextLLM)

SpecChat == Init /\ [][NextChat]_vars

SpecHistory == Init /\ [][NextHistory]_vars

SpecRoute == Init /\ [][NextRoute]_vars

SpecGuard == Init /\ [][NextGuard]_vars

SpecSession == Init /\ [][NextSession]_vars

SpecClear == Init /\ [][NextClear]_vars
SpecRate == Init /\ [][NextRate]_vars

InitMessage ==
    /\ ClockInit /\ RetrInit /\ BuilderInit /\ CBInit /\ LLMInit /\ ChatInit /\ HttpInit
    /\ ServiceInit /\ ClearInit
    /\ request \in Requests
    /\ RateInit

SpecMessage == InitMessage /\ [][NextMessage]_vars

SpecPairs == Init /\ [][NextPairs]_vars

SpecClearScope == Init /\ [][NextClearScope]_vars

SpecRecall == Init /\ [][NextRecall]_vars

-----------------------------------------------------------------------------
(* Claims about the coalescer and the retrieval cache *)

IsDedup(p) == rargs[p].entry = "dedup"
RequestKeyOf(p) == RequestKey(rargs[p].args[1], rargs[p].args[2], rargs[p].args[3])
TaskUnfinished(p) == IsDedup(p) /\ wst[p] \in {"created", "searching"}

\* C1: callers of _get_relevant_memories_with_dedup that arrive with the same
\* key while a retrieval of that key is in flight share it: at no time are two
\* coalescer tasks of one key unfinished (so the store is searched once for
\* the whole group), and every caller is returned the result of the one task
\* it joined, which is a task of its own key.
C1_Coalesced ==
    /\ \A p, q \in Callers :
          (p # q /\ TaskUnfinished(p) /\ TaskUnfinished(q))
              => RequestKeyOf(p) # RequestKeyOf(q)
    /\ \A p \in Callers :
          (IsDedup(p) /\ rpc[p] = "done")
              => /\ rresult[p] = wres[joined[p]]
                 /\ RequestKeyOf(joined[p]) = RequestKeyOf(p)

\* every caller arrived with one key during one miss, one search was made and
\* all of them hold its result
C1_Witness ==
    /\ \A p \in Callers :
          /\ IsDedup(p) /\ rpc[p] = "done" /\ joined[p] = 1
          /\ rresult[p] = <<"m1">>
    /\ { t \in Callers : wsearched[t] } = {1}
    /\ NCallers >= 2

\* C2 (as claimed): no retrieval searches the store when a search of the same
\* (owner, query, limit) has completed and inserted its result less than one
\* TTL before, whichever entry point either of them came through.
C2_OneSearchPerWindow ==
    \A p \in Callers : ~wrepeat[p]

\* C20: _pending_requests holds a key only for the task of the caller that
\* registered it, and that caller is still awaiting the task; every unfinished
\* coalescer task is the one registered under its key, so a key never has two
\* tasks in flight; and a key leaves the map only from its task's entry to
\* absent, in the step in which the caller that registered it resumes, which
\* is after the task has finished.  That caller resumes once, so the key of a
\* computation is removed exactly once, whoever else awaited the task.
C20_PendingMap ==
    /\ [](\A k \in RequestKeys :
            pending[k] # 0
              => /\ IsDedup(pending[k]) /\ RequestKeyOf(pending[k]) = k
                 /\ joined[pending[k]] = pending[k]
                 /\ rpc[pending[k]] = "await_task")
    /\ [](\A p \in Callers : TaskUnfinished(p) => pending[RequestKeyOf(p)] = p)
    /\ [][ \A k \in RequestKeys :
              (pending[k] # 0 /\ pending'[k] # pending[k])
                => /\ pending'[k] = 0
                   /\ wst[pending[k]] = "finished"
                   /\ rpc'[pending[k]] = "done"
      ]_vars

\* a caller that joined the task has its result while the caller that
\* registered the task has not resumed yet: the key is still in the map
C20_Witness ==
    \E p, q \in Callers :
        /\ p # q
        /\ IsDedup(p) /\ IsDedup(q) /\ joined[p] = p /\ joined[q] = p
        /\ rpc[q] = "done" /\ rresult[q] = wres[p]
        /\ rpc[p] = "await_task" /\ wst[p] = "finished"
        /\ pending[RequestKeyOf(p)] = p

\* a coalescer caller that has been resumed by the task it awaited
Resumed(p) == IsDedup(p) /\ rpc[p] \in {"done", "raised"}
JoinsNow(p) == rpc[p] = "idle" /\ rpc'[p] = "await_task"

\* C21 (as claimed): the exception of a failed task reaches every caller
\* that awaited it, the caller that registered it leaves the key out of
\* _pending_requests, and no call made after the failure is handed the
\* failed task.
C21_FailedTaskNotReawaited ==
    /\ [](\A p \in Callers :
            (Resumed(p) /\ wst[joined[p]] = "failed") => rpc[p] = "raised")
    /\ [](\A p \in Callers :
            (Resumed(p) /\ joined[p] = p) => pending[RequestKeyOf(p)] # p)
    /\ [][ \A p \in Callers :
              JoinsNow(p) => (joined'[p] = p \/ wst[joined'[p]] # "failed")
      ]_vars

\* C21 (amended): the exception of a failed task reaches every caller that
\* awaited it; once the caller that registered the task has resumed, the key
\* is out of _pending_requests, and a call that finds the key absent creates
\* and registers a task of its own.  A call is handed the failed task only
\* while the caller that registered it has not resumed yet.
C21_FailedTaskCleanedUp ==
    /\ [](\A p \in Callers :
            (Resumed(p) /\ wst[joined[p]] = "failed") => rpc[p] = "raised")
    /\ [](\A p \in Callers :
            (Resumed(p) /\ joined[p] = p) => pending[RequestKeyOf(p)] # p)
    /\ [][ \A p \in Callers :
              JoinsNow(p)
                => /\ (joined'[p] # p /\ wst[joined'[p]] = "failed")
                        => rpc[joined'[p]] = "await_task"
                   /\ pending[RequestKeyOf(p)'] = 0
                        => (joined'[p] = p /\ wst'[p] = "created"
                              /\ pending'[RequestKeyOf(p)'] = p)
      ]_vars

\* the task that a caller registered has failed and the caller has resumed
\* with the exception; a later call with the same key has a task of its own
C21_Witness ==
    \E p, q \in Callers :
        /\ p # q /\ IsDedup(p) /\ IsDedup(q)
        /\ RequestKeyOf(p) = RequestKeyOf(q)
        /\ joined[p] = p /\ wst[p] = "failed" /\ rpc[p] = "raised"
        /\ joined[q] = q /\ wst[q] \in {"created", "searching"}
        /\ pending[RequestKeyOf(q)] = q

\* the steps of one wrapper run: its first stretch, and the write that ends a miss
WrapperBegins(p) == wst[p] \in {"none", "created"} /\ wst'[p] \in {"finished", "searching"}
WrapperWrites(p) == wst[p] = "searching" /\ wst'[p] = "finished"
KeyOf(p) == CacheKey(rargs[p].args)

\* C22: a wrapper run returns the cached entry only if the entry is less than
\* CACHE_TTL older than the run's start time, and then returns the entry's
\* result without touching the cache; a run that finds no entry or one of age
\* >= CACHE_TTL goes to the store, and on return writes its result under its
\* key with its start time.  After a write no entry of age >= CACHE_TTL
\* relative to the writing run's start is left, an entry of another key is
\* removed only if it has that age, and the cache changes in no step other
\* than such a write (the passing of time alone removes nothing).
C22_CacheTTL ==
    [][ /\ \A p \in Callers :
             WrapperBegins(p)
               => LET entry == cache[KeyOf(p)'] IN
                  /\ wtime'[p] = now
                  /\ wst'[p] = "finished"
                       <=> (entry.timestamp >= 0 /\ now - entry.timestamp < CACHE_TTL)
                  /\ wst'[p] = "finished" => (wres'[p] = entry.result /\ ~wsearched'[p])
                  /\ wst'[p] = "searching" => wsearched'[p]
        /\ \A p \in Callers :
             WrapperWrites(p)
               => /\ cache'[KeyOf(p)] = [result |-> wres'[p], timestamp |-> wtime[p]]
                  /\ \A k \in CacheKeys :
                        /\ cache'[k].timestamp >= 0
                             => wtime[p] - cache'[k].timestamp < CACHE_TTL
                        /\ (k # KeyOf(p) /\ cache'[k] # cache[k])
                             => /\ cache'[k] = NoEntry
                                /\ wtime[p] - cache[k].timestamp >= CACHE_TTL
        /\ cache' # cache => \E p \in Callers : WrapperWrites(p)
      ]_vars

\* an entry written at time 0 outlived its TTL untouched until a run for
\* another key, started one TTL later, missed and wrote: the write swept it
C22_Witness ==
    \E p, q \in Callers :
        /\ wst[p] = "finished" /\ wsearched[p] /\ wtime[p] = 0
        /\ wst[q] = "finished" /\ wsearched[q] /\ wtime[q] = CACHE_TTL
        /\ KeyOf(p) # KeyOf(q)
        /\ cache[KeyOf(p)] = NoEntry
        /\ cache[KeyOf(q)] = [result |-> wres[q], timestamp |-> CACHE_TTL]

-----------------------------------------------------------------------------
(* Claims about the circuit breaker *)

\* C3: a failure that brings failure_count to failure_threshold leaves the
\* breaker OPEN (it is never CLOSED with that many failures counted), and as
\* long as the breaker is OPEN and no more than `timeout` seconds have passed
\* since last_failure_time no call reaches the wrapped operation: the call is
\* rejected with the breaker untouched.
C3_TripAndReject ==
    [][ /\ (failure_count' >= failure_threshold /\ failure_count' # failure_count)
            => cbState' = "OPEN"
        /\ (cbState' = "CLOSED" => failure_count' < failure_threshold)
        /\ (cbState = "OPEN" /\ now - last_failure_time <= timeout)
            => \A p \in CBCallers :
                  /\ cpc[p] = "idle" => cpc'[p] = "idle"
                  /\ cat'[p] # cat[p] => (cout'[p] = "rejected" /\ cbState' = "OPEN")
      ]_vars

\* the breaker tripped at the threshold and a call made exactly `timeout`
\* seconds after the last failure was rejected
C3_Witness ==
    /\ cbState = "OPEN"
    /\ failure_count = failure_threshold
    /\ \E p \in CBCallers :
          /\ cout[p] = "rejected" /\ cpc[p] = "idle"
          /\ cat[p] = last_failure_time + timeout

\* C4 (as claimed): while the trial call is in flight no other call reaches
\* the wrapped operation: no call that found the breaker HALF_OPEN is in the
\* wrapped operation.
C4_SingleTrial ==
    \A p \in CBCallers : cpc[p] = "inflight" => centry[p] # "HALF_OPEN"

\* C5 (as claimed): when the trial call returns successfully the breaker is
\* CLOSED with failure_count 0.
C5_TrialSuccessCloses ==
    [][ \A p \in CBCallers :
          (cpc[p] = "inflight" /\ ctrial[p] /\ cpc'[p] = "idle" /\ cout'[p] = "ok")
              => (cbState' = "CLOSED" /\ failure_count' = 0)
      ]_vars

\* C5 (amended): a call that returns successfully while the breaker is still
\* HALF_OPEN (the trial call, unless another call failed since it started)
\* leaves the breaker CLOSED with failure_count 0; and a CLOSED breaker opens
\* only by a failure that brings the count, one at a time, to
\* failure_threshold, so failure_threshold - 1 failures after the recovery do
\* not reopen it.
C5_SuccessInHalfOpenCloses ==
    [][ /\ \A p \in CBCallers :
              (cbState = "HALF_OPEN" /\ cpc[p] = "inflight"
                 /\ cpc'[p] = "idle" /\ cout'[p] = "ok")
                  => (cbState' = "CLOSED" /\ failure_count' = 0)
        /\ (cbState = "CLOSED" /\ cbState' # "CLOSED")
              => /\ cbState' = "OPEN"
                 /\ failure_count' = failure_count + 1
                 /\ failure_count' >= failure_threshold
      ]_vars

\* the trial call has succeeded and failure_threshold - 1 later failures have
\* left the breaker CLOSED
C5_Witness ==
    /\ cbState = "CLOSED"
    /\ failure_count = failure_threshold - 1
    /\ \E p \in CBCallers : ctrial[p] /\ cout[p] = "ok" /\ cpc[p] = "idle"

\* C19 (as claimed): when the trial call fails, the breaker is OPEN again and
\* last_failure_time is the time of that failure.
C19_TrialFailureReopens ==
    [][ \A p \in CBCallers :
          (cpc[p] = "inflight" /\ ctrial[p] /\ cpc'[p] = "idle" /\ cout'[p] = "raised")
              => (cbState' = "OPEN" /\ last_failure_time' = now)
      ]_vars

\* C19 (amended): a call that fails while the breaker is still HALF_OPEN (the
\* trial call, unless another call has succeeded and closed the breaker since
\* the trial started) leaves the breaker OPEN with last_failure_time the time
\* of that failure; every failure stamps last_failure_time; and a call made
\* while the breaker is OPEN and no more than `timeout` seconds have passed
\* since last_failure_time is rejected.
C19_FailureInHalfOpenReopens ==
    [][ /\ \A p \in CBCallers :
              (cpc[p] = "inflight" /\ cpc'[p] = "idle" /\ cout'[p] = "raised")
                  => /\ last_failure_time' = now
                     /\ cbState = "HALF_OPEN" => cbState' = "OPEN"
        /\ \A p \in CBCallers :
              (cpc[p] = "idle" /\ cat'[p] # cat[p] /\ cbState = "OPEN"
                 /\ now <= last_failure_time + timeout)
                  => cout'[p] = "rejected"
      ]_vars

\* the trial call, made after the timeout, has failed: the breaker is OPEN
\* with one failure more than the threshold, stamped with the trial's
\* failure, and another call made at that time was rejected
C19_Witness ==
    /\ cbState = "OPEN"
    /\ failure_count = failure_threshold + 1
    /\ last_failure_time = now /\ now > timeout
    /\ \E p, q \in CBCallers :
          /\ ctrial[p] /\ cout[p] = "raised" /\ cpc[p] = "idle"
          /\ cout[q] = "rejected" /\ cat[q] = last_failure_time

CBSucceeds(p) == cpc[p] = "inflight" /\ cpc'[p] = "idle" /\ cout'[p] = "ok"
CBFails(p) == cpc[p] = "inflight" /\ cpc'[p] = "idle" /\ cout'[p] = "raised"

\* C30: a call that returns successfully while the breaker is CLOSED leaves
\* failure_count and the state as they are; every failure adds one to
\* failure_count, and the breaker is OPEN after any failure that brings the
\* count to failure_threshold or beyond; failure_count changes in no other
\* way than by a failure or by the success of a call in HALF_OPEN, which
\* sets it to 0.  So failure_count is the number of failures since the last
\* HALF_OPEN success (or since construction), successes in between or not.
C30_SuccessKeepsCount ==
    [][ /\ \A p \in CBCallers :
              (CBSucceeds(p) /\ cbState = "CLOSED")
                => (failure_count' = failure_count /\ cbState' = "CLOSED")
        /\ \A p \in CBCallers :
              CBFails(p)
                => /\ failure_count' = failure_count + 1
                   /\ failure_count' >= failure_threshold => cbState' = "OPEN"
        /\ failure_count' # failure_count
              => \/ \E p \in CBCallers : CBFails(p)
                 \/ /\ \E p \in CBCallers : CBSucceeds(p)
                    /\ cbState = "HALF_OPEN" /\ failure_count' = 0
      ]_vars

\* no time has passed since construction, so no call was a trial: one caller's
\* last call returned, and the breaker has opened at the failure_threshold-th
\* failure
C30_Witness ==
    /\ now = 0
    /\ cbState = "OPEN" /\ failure_count = failure_threshold
    /\ \E p \in CBCallers : cout[p] = "ok" /\ cpc[p] = "idle" /\ centry[p] = "CLOSED"

\* C31: in every state, whatever the interleaving of the calls, an OPEN
\* breaker has failure_count >= failure_threshold and a last_failure_time
\* that has been set, and a CLOSED breaker has failure_count below
\* failure_threshold.
C31_StateInvariant ==
    /\ cbState \in {"CLOSED", "OPEN", "HALF_OPEN"}
    /\ cbState = "OPEN"
          => (failure_count >= failure_threshold /\ last_failure_time >= 0)
    /\ cbState = "CLOSED" => failure_count < failure_threshold

\* the breaker opened, closed again on the trial's success, and has counted
\* one failure of another caller since
C31_Witness ==
    /\ cbState = "CLOSED" /\ failure_count = 1
    /\ last_failure_time > timeout
    /\ \E p, q \in CBCallers :
          /\ p # q /\ ctrial[p] /\ cout[p] = "ok" /\ cpc[p] = "idle"
          /\ cout[q] = "raised" /\ cpc[q] = "idle" /\ cat[q] > timeout

-----------------------------------------------------------------------------
(* Claims about the model client *)

AllOutcomes(kinds) == \A i \in 1..Len(outcomes) : outcomes[i].kind \in kinds

\* C6: when every attempt is answered 429, the call makes exactly max_retries
\* requests, sleeps 2^attempt seconds after attempt number attempt (so each
\* wait is longer than the one before) and returns the fallback text of the
\* exhausted loop.
C6_RateLimitBackoff ==
    (lpc = "done" /\ AllOutcomes({"429"}))
        => /\ requests = max_retries
           /\ Len(sleeps) = max_retries
           /\ \A i \in 1..Len(sleeps) : sleeps[i] = Pow2(i - 1)
           /\ \A i \in 1..(Len(sleeps) - 1) : sleeps[i] < sleeps[i + 1]
           /\ lresult = FallbackExhausted

\* the default three attempts, all rate limited, with waits 1, 2, 4
C6_Witness ==
    /\ lpc = "done"
    /\ max_retries = DEFAULT_MAX_RETRIES
    /\ AllOutcomes({"429"})
    /\ requests = 3
    /\ sleeps = <<1, 2, 4>>

ClaimedOutcomes == {"200", "429", "timeout", "error"}

RetryShape ==
    /\ requests <= max_retries
    /\ requests = Len(outcomes)
    /\ \A i \in 1..Len(outcomes) :
          /\ (outcomes[i].kind = "200") => (i = Len(outcomes) /\ lpc = "done")
          /\ (outcomes[i].kind \in {"timeout", "error"} /\ i < max_retries)
                => /\ sleeps[i] = 1
                   /\ (lpc = "done" => Len(outcomes) > i)

Got200 == outcomes # <<>> /\ outcomes[Len(outcomes)].kind = "200"

\* C7 (as claimed): whatever the attempts' outcomes, the call makes at most
\* max_retries requests, none after a 200 response, sleeps 1 s and tries again
\* after a timeout or error that is not the last attempt, and returns a
\* non-empty string.
C7_NeverHardFails ==
    AllOutcomes(ClaimedOutcomes)
        => /\ RetryShape
           /\ lpc = "done" => lresult # ""

\* C7 (amended): the same, except that the string returned is only known to
\* be non-empty when no 200 response was received (it is then one of the
\* fallback texts); after a 200 response it is that response's content as it
\* came, which may be empty.  The call always returns.
C7_ReturnsReplyOrFallback ==
    /\ [](AllOutcomes(ClaimedOutcomes)
            => /\ RetryShape
               /\ lpc = "done"
                    => IF Got200
                       THEN lresult = outcomes[Len(outcomes)].content
                       ELSE /\ lresult # ""
                            /\ lresult \in {FallbackTimeout, FallbackExhausted,
                                             FallbackError \o "ClientError"})
    /\ <>(lpc = "done")

\* a timeout, then an error, each followed by a 1 s sleep, then a last
\* attempt that times out: the timeout fallback is returned
C7_Witness ==
    /\ lpc = "done"
    /\ max_retries = 3
    /\ Len(outcomes) = 3
    /\ outcomes[1].kind = "timeout" /\ outcomes[2].kind = "error"
    /\ outcomes[3].kind = "timeout"
    /\ sleeps = <<1, 1, 0>>
    /\ lresult = FallbackTimeout

-----------------------------------------------------------------------------
(* Claims about chat *)

\* C8: every chat call that has left its await points has returned a result
\* holding user_id, session_id, memories_used and timestamp; when a step of
\* the turn raised (the search, the model client's configuration, the model
\* call, the history append) the call still returned, and its result is the
\* apology with memories_used = [] and the error attached.
C8_ChatAlwaysReturns ==
    \A p \in Turns :
        /\ chpc[p] \in {"idle", "search", "model", "returned"}
        /\ chraised[p] # "none" => chpc[p] = "returned"
        /\ chpc[p] = "returned"
              => /\ {"user_id", "session_id", "memories_used", "timestamp"}
                        \subseteq DOMAIN chresult[p]
                 /\ chresult[p].user_id = chargs[p].user_id
                 /\ chresult[p].session_id = chsid[p]
                 /\ chraised[p] # "none"
                      => /\ "error" \in DOMAIN chresult[p]
                         /\ chresult[p].response = Apology
                         /\ chresult[p].memories_used = <<>>
                         /\ chresult[p].error = chraised[p]

\* the model call raised in a turn that had found memories
C8_Witness ==
    \E p \in Turns :
        /\ chpc[p] = "returned" /\ chraised[p] = "model"
        /\ chmem[p] # <<>>
        /\ chresult[p].memories_used = <<>>

\* C9 (as claimed): a turn whose store search raised has called the model and
\* returned the model's reply, not the degraded response.
C9_SearchFailureStillReplies ==
    \A p \in Turns :
        (chpc[p] = "returned" /\ chraised[p] = "search")
            => (chmodel[p] /\ "error" \notin DOMAIN chresult[p])

\* C10 (as claimed): once the stream of a streaming turn has been consumed to
\* its end, a background save of the turn has been scheduled.
C10_StreamedTurnSaved ==
    \A p \in Turns : stream[p] = "exhausted" => savepc[p] # "none"

\* C11: the reply does not depend on the background save.  A non-streaming
\* turn whose search and model call succeeded returns with its save only
\* scheduled (memory.add has not been started, let alone awaited), its result
\* holds the model's reply, the session id and the memories found, and no
\* step of the save (its start, its success, its failure) changes the result
\* or the position of any chat call; a save that never completes changes
\* nothing either, being no step at all.
C11_ReplyDecoupledFromSave ==
    [][ \A p \in Turns :
          /\ (chpc[p] = "model" /\ chpc'[p] = "returned" /\ chraised'[p] = "none"
                 /\ ~StreamMode(chargs[p].metadata))
                => /\ savepc'[p] = "scheduled"
                   /\ chresult'[p].response = savemsg'[p][2].content
                   /\ chresult'[p].session_id = chsid[p]
                   /\ chresult'[p].memories_used = chmem[p]
          /\ (savepc'[p] # savepc[p] /\ savepc[p] # "none")
                => (chresult' = chresult /\ chpc' = chpc)
      ]_vars

\* two turns of one session with the same reply: the add of one has failed,
\* the add of the other is still running, and their results are the same
C11_Witness ==
    \E p, q \in Turns :
        /\ p # q
        /\ chpc[p] = "returned" /\ chpc[q] = "returned"
        /\ savepc[p] = "failed" /\ savepc[q] = "adding"
        /\ chresult[p] = chresult[q]
        /\ chresult[p].response = "reply"

\* C12 (as claimed): the history kept for a session never holds more than
\* HISTORY_WINDOW turns.
C12_HistoryBounded ==
    \A k \in SessionKeys : Len(conversation_history[k].turns) <= HISTORY_WINDOW

\* the step in which turn p's model call is back with the reply and chat returns
ModelReturns(p) == chpc[p] = "model" /\ chpc'[p] = "returned" /\ chraised'[p] = "none"
ModelFails(p) == chpc[p] = "model" /\ chraised'[p] = "model"

\* C25: the history of a session changes only when a chat creates it empty
\* or in the step in which a turn's model call has come back with the reply,
\* and then by exactly the user's turn followed by the assistant's turn of
\* that exchange, added at the end; the step of a turn whose model call
\* raised changes no history.
C25_AppendAfterModel ==
    [][ /\ \A k \in SessionKeys :
             conversation_history'[k] # conversation_history[k]
               => \/ /\ ~conversation_history[k].present
                     /\ conversation_history'[k] = [present |-> TRUE, turns |-> <<>>]
                  \/ \E p \in Turns :
                       /\ ModelReturns(p) /\ chmodel[p]
                       /\ k = SessionKey(chargs[p].user_id, chsid[p])
                       /\ conversation_history'[k].present
                       /\ conversation_history'[k].turns =
                            conversation_history[k].turns
                              \o <<[role |-> "user", content |-> chargs[p].message]>>
                              \o <<[role |-> "assistant", content |-> chresult'[p].response]>>
        /\ \A p \in Turns :
             ModelReturns(p)
               => LET k == SessionKey(chargs[p].user_id, chsid[p]) IN
                  Len(conversation_history'[k].turns) = Len(conversation_history[k].turns) + 2
        /\ \A p \in Turns :
             ModelFails(p) => conversation_history' = conversation_history
      ]_vars

\* two exchanges of the session are in its history, in the order they were
\* made, and a third turn whose model call raised has added nothing
C25_Witness ==
    /\ conversation_history["u1_s1"].turns =
          << [role |-> "user", content |-> "hi"], [role |-> "assistant", content |-> "reply"],
             [role |-> "user", content |-> "hi"], [role |-> "assistant", content |-> "reply"] >>
    /\ \E p \in Turns : chpc[p] = "returned" /\ chraised[p] = "model" /\ chmodel[p]
    /\ nchats = 3

-----------------------------------------------------------------------------
(* Claims about the streaming route *)

\* C13 (as claimed): what generate() has emitted starts with the one metadata
\* fragment of the turn's result, goes on with content fragments only, and
\* once generate() has ended its last fragment is the one done fragment.
C13_Envelope ==
    \A p \in Turns :
        LET e == emitted[p] IN
        /\ genpc[p] # "none"
              => /\ e[1] = MetadataFragment(chresult[p])
                 /\ \A i \in 2..Len(e) :
                       /\ e[i].type \in {"content", "done"}
                       /\ e[i].type = "done" => i = Len(e)
        /\ genpc[p] \in {"done", "failed"}
              => /\ e[Len(e)].type = "done"
                 /\ Len(e) >= 2

-----------------------------------------------------------------------------
(* Claims about the breaker and chat *)

\* C14 (as claimed): while the breaker is OPEN and its timeout has not
\* elapsed, no chat turn hands a call to the model.
C14_NoModelCallWhileOpen ==
    [][ (cbState = "OPEN" /\ ~TimeoutElapsed(now))
            => \A p \in Turns : chmodel'[p] => chmodel[p]
      ]_vars

-----------------------------------------------------------------------------
(* Claims about sessions *)

\* the call was made without a session id (None, or the empty string, which
\* `not session_id` takes for None)
Absent(p) == chargs[p].session_id \in {None, ""}
Called(p) == chpc[p] # "idle"

\* C15: a chat call made without a session id works on, and returns, a
\* generated session id that is not empty and differs from the id of every
\* other call made without one; a call made with a non-empty session id works
\* on, and returns, that id.
C15_SessionIds ==
    \A p \in Turns :
        Called(p)
          => /\ Absent(p)
                  => /\ chsid[p] \notin {None, ""}
                     /\ \A q \in Turns \ {p} :
                           (Called(q) /\ Absent(q)) => chsid[q] # chsid[p]
             /\ ~Absent(p) => chsid[p] = chargs[p].session_id
             /\ chpc[p] = "returned" => chresult[p].session_id = chsid[p]

\* every call has returned: one made with None, one with "", each with an id
\* of its own (when there are more calls, one of them gave its id)
C15_Witness ==
    /\ \A p \in Turns : chpc[p] = "returned"
    /\ chargs[1].session_id = None /\ chargs[2].session_id = ""
    /\ chresult[1].session_id = Uuid(1) /\ chresult[2].session_id = Uuid(2)
    /\ \A p \in Turns \ {1, 2} :
          chargs[p].session_id = "s1" /\ chresult[p].session_id = "s1"

\* the successful turns made on the session (u, sid)
TurnsOn(u, sid) ==
    { p \in Turns : Called(p) /\ chargs[p].user_id = u /\ chsid[p] = sid }

\* C16 (as claimed): the history of the session (owner, session id) exists
\* only once a chat on that very pair has created it, and holds the two turns
\* of each successful exchange on that pair and nothing else.
C16_SessionIsolation ==
    \A u \in SessionUsers, sid \in SessionIds :
        LET h == conversation_history[SessionKey(u, sid)] IN
        /\ h.present => TurnsOn(u, sid) # {}
        /\ Len(h.turns) = 2 * Cardinality({ p \in TurnsOn(u, sid) :
                                 chpc[p] = "returned" /\ chraised[p] = "none" })

-----------------------------------------------------------------------------
(* Claims about recall and the prompt *)

Range(seq) == { seq[i] : i \in DOMAIN seq }

C18_PromptHasHistory ==
    [][ \A p \in Turns :
          (chmodel'[p] /\ ~chmodel[p])
            => chprompt'[p] =
                 <<[role |-> "system", content |-> SystemPrompt(chmem'[p])]>>
                   \o LastN(conversation_history[SessionKey(chargs[p].user_id, chsid[p])].turns,
                            HISTORY_WINDOW)
                   \o <<[role |-> "user", content |-> chargs[p].message]>>
      ]_vars


-----------------------------------------------------------------------------
(* Claims about the context builder *)

IsBuilder(p) == rargs[p].entry = "builder"
Min(a, b) == IF a < b THEN a ELSE b

\* C26: a builder call records the session's history as it is at entry, and
\* what it returns is the one system message, then the last min(10, n) turns
\* of that history (n its length) in their order, then the new user message;
\* turns appended to the session while the builder waits for the memories are
\* not in it, and with no history the result is the system message and the
\* user message alone.
C26_BuilderLayout ==
    /\ [][ \A p \in Callers :
              (rpc[p] = "idle" /\ rpc'[p] # "idle" /\ IsBuilder(p)')
                => bseen'[p] = conversation_history[SessionKey(rargs'[p].args[1], "s1")].turns
      ]_vars
    /\ [](\A p \in Callers :
            (IsBuilder(p) /\ rpc[p] = "done")
              => LET n == Len(bseen[p])
                     w == Min(HISTORY_WINDOW, n)
                     m == bmsgs[p]
                 IN  /\ Len(m) = w + 2
                     /\ m[1].role = "system"
                     /\ m[Len(m)] = [role |-> "user", content |-> rargs[p].args[2]]
                     /\ \A i \in 1..w : m[1 + i] = bseen[p][n - w + i]
                     /\ \A i \in 2..Len(m) - 1 : m[i].role # "system"
                     /\ n = 0 => m = <<m[1], [role |-> "user", content |-> rargs[p].args[2]]>>)

\* a builder entered the session when it held more than a window and returned
\* after a chat turn had appended an exchange: its result holds the window
\* as it was at entry
C26_Witness ==
    \E p \in Callers :
        /\ IsBuilder(p) /\ rpc[p] = "done" /\ wsearched[p]
        /\ Len(bseen[p]) = 2 * MaxExchanges
        /\ Len(conversation_history[SessionKey("u1", "s1")].turns) = 2 * MaxExchanges + 2
        /\ Len(bmsgs[p]) = HISTORY_WINDOW + 2
        /\ bmsgs[p][2] = PastTurn(2 * MaxExchanges - HISTORY_WINDOW + 1)
        /\ bmsgs[p][HISTORY_WINDOW + 1] = PastTurn(2 * MaxExchanges)

\* the system instructions with their memory sections written out, for the
\* lists of one and of two memories
BuilderSection(bullets) ==
    "You are an assistant that remembers the user's preferences and past talks."
        \o "\n\nThe following are memories of the user:\n" \o bullets
        \o "\n\nReply on the basis of these memories, and mind the user's preferences and interests."
ChatSection(bullets) ==
    "You are an assistant that remembers the user's preferences and past talks."
        \o "\n\nMemories of the user:\n" \o bullets
        \o "\n\nReply on the basis of these memories."

\* what the claim says of a system instruction built from a memory list
SectionIff(content, memories, plain, section1, section2) ==
    /\ Len(memories) <= 2
    /\ Len(memories) = 0 => content = plain
    /\ Len(memories) = 1 => content = section1
    /\ Len(memories) = 2 => content = section2

\* C27: the system instruction of a builder's result and the one of a chat
\* turn's prompt are the plain base instruction when no memory was
\* retrieved, and otherwise the base instruction followed by the section's
\* header, one "- <memory>" line per retrieved memory in retrieval order,
\* and the section's closing line.
C27_MemorySection ==
    /\ \A p \in Callers :
          (IsBuilder(p) /\ rpc[p] = "done")
            => SectionIff(bmsgs[p][1].content, rresult[p],
                   "You are an assistant that remembers the user's preferences and past talks.",
                   BuilderSection("- " \o rresult[p][1]),
                   BuilderSection("- " \o rresult[p][1] \o "\n- " \o rresult[p][2]))
    /\ \A p \in Turns :
          chmodel[p]
            => SectionIff(chprompt[p][1].content, chmem[p],
                   "You are an assistant that remembers the user's preferences and past talks.",
                   ChatSection("- " \o chmem[p][1]),
                   ChatSection("- " \o chmem[p][1] \o "\n- " \o chmem[p][2]))

\* builders that retrieved two memories and none, and a chat turn that
\* retrieved two
C27_Witness ==
    /\ \E p, q \in Callers :
          /\ IsBuilder(p) /\ rpc[p] = "done" /\ rresult[p] = <<"m1", "m2">>
          /\ IsBuilder(q) /\ rpc[q] = "done" /\ rresult[q] = <<>>
          /\ bmsgs[q][1].content = BasePrompt
    /\ chmodel[1] /\ chmem[1] = <<"m1", "m2">>

-----------------------------------------------------------------------------
(* Claims about the shared HTTP session *)

Enters(p) == hpc[p] = "idle" /\ hpc'[p] = "using"

\* C28: at most one session is open at any time, and it is self._session;
\* as long as close() has not run, one session at most has been made and
\* every client inside its `with` holds that session, however many entered
\* before any left; a session is made only in a get_session that finds
\* self._session None or closed, and every get_session gives its caller the
\* session self._session then is, the open one when there is one.
C28_SingleSession ==
    /\ [](/\ Cardinality(hopen) <= 1
          /\ hopen \subseteq {hsession}
          /\ ~hconnclosed
               => /\ hcreated <= 1
                  /\ \A p \in Clients :
                        hpc[p] = "using" => (hgot[p] = 1 /\ hopen = {1}))
    /\ [][ /\ hcreated' # hcreated
               => /\ hcreated' = hcreated + 1
                  /\ hsession = 0 \/ hsession \notin hopen
                  /\ \E p \in Clients : Enters(p)
           /\ \A p \in Clients :
                 Enters(p)
                   => /\ hgot'[p] = hsession'
                      /\ hsession \in hopen => (hsession' = hsession /\ hcreated' = hcreated)
      ]_vars

\* every client entered get_session before any left: one session was made
\* and all of them hold it
C28_Witness ==
    /\ \A p \in Clients : hpc[p] = "using" /\ hgot[p] = 1
    /\ hcreated = 1 /\ hopen = {1} /\ hsession = 1
    /\ NClients >= 2

-----------------------------------------------------------------------------
(* Claims about MemoryService *)

-----------------------------------------------------------------------------
(* Claims about the background save *)

\* the step in which the save of turn p calls memory.add
AddsNow(p) == nadds'[p] = nadds[p] + 1

\* C23 (as claimed): the metadata of every memory.add of the save has the
\* turn's session id under session_id and the timestamp the save generated
\* under timestamp, whatever dictionary the caller gave as metadata.
C23_PersistedMetadata ==
    [][ \A p \in Turns :
          AddsNow(p)
            => /\ savemeta'[p]["session_id"] = chsid[p]
               /\ savemeta'[p]["timestamp"] = IsoFormat(now)
      ]_vars

\* a successful turn that asked for no stream: chat returned the plain result
Succeeded(p) == chpc[p] = "returned" /\ chraised[p] = "none"

\* C24: the save of a turn calls memory.add at most once, and exactly once
\* by the time it has ended; a turn has a save exactly if its model call
\* succeeded; every scheduled save does make its call and ends; and a save
\* whose add raised stays ended: it makes no further call, and the turn's
\* result and the turn's record of a raised step are as they were.
C24_SavedOnce ==
    /\ [](\A p \in Turns :
            /\ nadds[p] <= 1
            /\ savepc[p] \in {"none", "scheduled"} => nadds[p] = 0
            /\ savepc[p] \in {"adding", "saved", "failed"} => nadds[p] = 1
            /\ Succeeded(p) => savepc[p] # "none"
            /\ savepc[p] # "none" => Succeeded(p))
    /\ \A p \in Turns :
          (savepc[p] = "scheduled") ~> (savepc[p] \in {"saved", "failed"} /\ nadds[p] = 1)
    /\ [][ \A p \in Turns :
              savepc[p] = "failed"
                => /\ savepc'[p] = "failed" /\ nadds'[p] = 1
                   /\ chresult'[p] = chresult[p] /\ chraised'[p] = chraised[p]
                   /\ stored' = stored \/ \E q \in Turns \ {p} : savepc[q] = "adding"
      ]_vars

\* the add of one turn's save raised and the other turn's save stored its
\* record: each called memory.add once, and both callers have their reply
C24_Witness ==
    /\ Succeeded(1) /\ savepc[1] = "failed" /\ nadds[1] = 1
    /\ chresult[1].response = "reply"
    /\ Succeeded(2) /\ savepc[2] = "saved" /\ nadds[2] = 1
    /\ Cardinality(stored) = 1


-----------------------------------------------------------------------------
(* Claims about clear_user_memories *)

\* C32 (as claimed): a chat call that has returned the apology with an error
\* field has scheduled no save of its turn.
C32_DegradedNotSaved ==
    \A p \in Turns :
        (chpc[p] = "returned" /\ chraised[p] # "none") => savepc[p] = "none"

\* the step in which delete_all is back and clear_user_memories returns
ClearReturns(result) == clpc = "deleting" /\ clpc' = "idle" /\ clresult' = result

\* C35 (as claimed): a successful clear_user_memories(u) removes the history
\* of every session of u and leaves the history of every session of every
\* other owner as it was.
C35_ClearScope ==
    [][ ClearReturns("True")
          => \A v \in SessionUsers, sid \in SessionIds :
                LET k == SessionKey(v, sid) IN
                /\ v = cluser => ~conversation_history'[k].present
                /\ v # cluser => conversation_history'[k] = conversation_history[k]
      ]_vars

\* C36: when delete_all raises, clear_user_memories returns False and every
\* session history is as it was, those of the user with their turns
\* included; the call ends idle, having raised nothing.
C36_FailedClearKeepsHistory ==
    [][ (clpc = "deleting" /\ clpc' # "deleting" /\ clresult' # "True")
          => /\ clresult' = "False" /\ clpc' = "idle"
             /\ conversation_history' = conversation_history
      ]_vars

\* the user's session holds an exchange and the clear of the user's
\* memories has returned False
C36_Witness ==
    /\ clresult = "False" /\ clpc = "idle" /\ cluser = "u1"
    /\ Len(conversation_history[SessionKey("u1", "s1")].turns) = 2
    /\ \E p \in Turns : chpc[p] = "returned" /\ chraised[p] = "none"


-----------------------------------------------------------------------------
(* Claims about the shape of a session's history *)

\* the turns that returned the plain result of a successful exchange
Exchanged(p) ==
    chpc[p] = "returned" /\ chraised[p] = "none" /\ ~StreamMode(chargs[p].metadata)

\* C33: in every state the history of every session has even length, its
\* turns 2i-1 and 2i are a user turn and an assistant turn that are the
\* message and the reply of one successful exchange on that session, and
\* it holds as many pairs as exchanges have succeeded on the session: the
\* turns of concurrent chats are never interleaved.
C33_HistoryPairs ==
    \A k \in SessionKeys :
        LET h == conversation_history[k].turns
            on == { p \in Turns : Exchanged(p) /\ SessionKey(chargs[p].user_id, chsid[p]) = k }
        IN  /\ Len(h) % 2 = 0
            /\ Len(h) = 2 * Cardinality(on)
            /\ \A i \in 1..(Len(h) \div 2) :
                  /\ h[2 * i - 1].role = "user" /\ h[2 * i].role = "assistant"
                  /\ \E p \in on :
                        /\ h[2 * i - 1].content = chargs[p].message
                        /\ h[2 * i].content = chresult[p].response

\* two chats that ran concurrently on the session, with different messages
\* and different replies, have both succeeded
C33_Witness ==
    /\ Exchanged(1) /\ Exchanged(2)
    /\ chargs[1].message = "hi" /\ chresult[1].response = "sure"
    /\ chargs[2].message = "yo" /\ chresult[2].response = "reply"
    /\ conversation_history[SessionKey("u1", "s1")].turns =
          << [role |-> "user", content |-> "yo"], [role |-> "assistant", content |-> "reply"],
             [role |-> "user", content |-> "hi"], [role |-> "assistant", content |-> "sure"] >>


-----------------------------------------------------------------------------
(* Claims about the route /chat/message *)

\* C34 (as claimed): the handling of a request calls agent.chat once, never
\* a second time, whether or not the request asks for a stream and whatever
\* the streaming call returned.
C34_OneChatPerRequest ==
    request # NoRequest => nchats <= 1


-----------------------------------------------------------------------------
(* Claims about rate_limit_middleware *)

\* the step is a request of the middleware
RateStep == nrequests' = nrequests + 1

\* C38: in one minute window at most RATE_LIMIT requests of one client are
\* forwarded; a request of a client that already has RATE_LIMIT forwarded
\* requests in the window is answered 429 and not forwarded, every other
\* request is forwarded; and after a forwarded request no counter of a window
\* more than 5 minutes old is left.
C38_RateLimit ==
    /\ [](\A k \in DOMAIN forwarded : forwarded[k] <= RATE_LIMIT)
    /\ [][RateStep =>
            LET key == RateKey(rlanswer'.client, rlanswer'.minute)
            IN  /\ rlanswer'.minute = minute_now
                /\ rlanswer'.status = "429" <=> forwarded[key] >= RATE_LIMIT
                /\ rlanswer'.status = "429" => forwarded' = forwarded
                /\ rlanswer'.status = "forwarded" =>
                        /\ forwarded'[key] = forwarded[key] + 1
                        /\ \A k \in DOMAIN request_counts' :
                                minute_now - KeyMinute(k) <= 5]_vars

\* a client is refused in a window in which RATE_LIMIT of its requests were
\* forwarded, after the counter of an old window has been removed
C38_Witness ==
    /\ rlanswer.status = "429"
    /\ forwarded[RateKey(rlanswer.client, rlanswer.minute)] = RATE_LIMIT
    /\ \E k \in DOMAIN forwarded :
            /\ forwarded[k] > 0
            /\ minute_now - KeyMinute(k) > 5
            /\ k \notin DOMAIN request_counts


-----------------------------------------------------------------------------
(* Claims about batch_add_memories *)

\* the dictionaries among the items: those add_memory is called for
DictItems(memories_data) ==
    { i \in 1..Len(memories_data) : memories_data[i].isDict }

\* C39: after batch_add_memories on a list of n items, success_count +
\* failed_count = total_processed = n = the number of result entries, the
\* entries carry the indexes 0..n-1 in order, success holds exactly when
\* failed_count = 0, the counts are those of the entries' results, and every
\* item has been processed whatever happened to the items before it: the
\* store was called once for each dictionary of the list.
C39_BatchAccounting ==
    [][svargs'.op = "batch_add_memories" /\ <<mcalls, svargs, svlast>>' # <<mcalls, svargs, svlast>> =>
        LET data == svargs'.memories_data
            n == Len(data)
            r == svlast'
        IN  /\ r.success_count + r.failed_count = n
            /\ r.total_processed = n
            /\ Len(r.results) = n
            /\ \A i \in 1..n : r.results[i].index = i - 1
            /\ r.success <=> r.failed_count = 0
            /\ r.success_count =
                    Cardinality({ i \in 1..n : r.results[i].result.success })
            /\ \A i \in 1..n : r.results[i].result.success => data[i].isDict
            /\ Len(mcalls') = Len(mcalls) + Cardinality(DictItems(data))]_vars

\* a batch of two items of which the first failed and the second was added
C39_Witness ==
    /\ svargs.op = "batch_add_memories"
    /\ Len(svargs.memories_data) = 2
    /\ ~svlast.results[1].result.success
    /\ svlast.results[2].result.success
    /\ svlast.failed_count = 1
    /\ ~svlast.success


-----------------------------------------------------------------------------
(* Claims about what async_cache stores *)

\* the store's search raises
SearchRaises == [raised |-> TRUE, results |-> <<>>]

\* C37 (as claimed): when the store's search raises during a cached
\* retrieval, no entry is stored for the key: the key has no entry afterwards,
\* or the entry it had before.
C37_FailureNotCached ==
    [][\A p \in Callers :
            SearchReturn(p, SearchRaises) =>
                LET key == CacheKey(rargs[p].args)
                IN  ~Present(cache'[key]) \/ cache'[key] = cache[key]]_vars

\* C40 (as claimed): for each key the timestamp stored in the cache never
\* decreases, so that after two concurrent misses of a key the entry left is
\* the one of the call that started later.
C40_TimestampMonotone ==
    [][\A k \in CacheKeys :
            Present(cache[k]) /\ Present(cache'[k]) =>
                cache'[k].timestamp >= cache[k].timestamp]_vars

====
